---- MODULE Spec2Model ----
(***************************************************************************)
(* FactorioUpbot: the drift-compensating scheduler (schedule.py), the bot  *)
(* life cycle that owns it (on_ready / cog_unload), the transition         *)
(* classifier (check_server) and the per-tick pipeline (check_games).      *)
(* Time is in whole seconds.                                               *)
(***************************************************************************)
EXTENDS Integers, Sequences, FiniteSets, TLC

(***************************************************************************)
(* Bounds of the model                                                     *)
(***************************************************************************)
MaxTime  == 260   \* the clock stops advancing here
MaxStart == 1     \* the process starts at a time in 0..MaxStart
MaxLoops == 2     \* scheduler tasks the model can hold
MaxReady == 2     \* ready events (first connect and reconnects)
MaxGames == 1     \* entries of a snapshot
MaxServers == 2   \* tracked entries of a guild
MaxListing == 3    \* entries of the listing find_game searches
MaxTicks == 2      \* ticks of check_games taken as a whole
MaxHistory == 10   \* ticks behind the persisted top lists and popular.json
MaxList == 3       \* entries of a list handed to filter_duplicate_top_games
MaxPasses == 2     \* applications to one list

(***************************************************************************)
(* Program constants                                                       *)
(***************************************************************************)
Delta == 60       \* repeat(self.check_games, 60)

Loops == 1..MaxLoops

VARIABLES
    now,              \* time()
    checker_session,  \* "None", "open" or "closed"
    checker_loop,     \* 0 for None, else the task created by on_ready
    nloops,           \* number of repeat() tasks created so far
    readied,          \* number of ready events delivered
    task,             \* per repeat() task: its frame and bookkeeping
    server_cfg,       \* check_server: the tracked entry it is called on
    game,             \* check_server: the match passed, <<>> for None
    old_state,        \* check_server: the entry's state before the call
    ret,              \* check_server: <<(ping, messages) returned>>, or <<>>
    cfg,              \* cfg['guilds']: per guild its tracked entries
    guild_env,        \* per guild: what discord resolves for it
    tick,             \* check_games: where the tick is, and its locals
    sent,             \* per guild: the messages sent in the current tick
    games_cache,      \* self.games_cache
    snapshot,         \* find_game: the listing it searches
    last_check,       \* self.last_check
    top_lists_cache,  \* self.top_lists_cache['servers']
    popular_cache,    \* self.popular_cache
    nticks,           \* check_games calls that are over
    config_file,      \* <<what write_config last wrote>>, <<>> before
    top_lists_file,   \* top-lists.json
    popular_file,     \* popular.json
    iter,             \* check_guild: the index of its loop over the entries
    toplist,          \* update_top_lists: top_list, the list of one key
    applied,          \* what was last applied to toplist,  <<>> for nothing
    seen              \* the entries of the listings of the completed ticks

schedVars == <<now, checker_session, checker_loop, nloops, readied, task>>
serverVars == <<server_cfg, game, old_state, ret>>
tickVars == <<cfg, guild_env, tick, sent, games_cache>>
matchVars == <<snapshot>>
cacheVars == <<last_check, top_lists_cache, popular_cache, nticks>>
fileVars == <<config_file, top_lists_file, popular_file>>
listVars == <<toplist, applied>>
restVars == <<iter, seen>>

vars == <<now, checker_session, checker_loop, nloops, readied, task,
          server_cfg, game, old_state, ret,
          cfg, guild_env, tick, sent, games_cache,
          snapshot, last_check, top_lists_cache, popular_cache, nticks,
          config_file, top_lists_file, popular_file, iter, toplist, applied,
          seen>>

(***************************************************************************)
(* Python values.  True, False and None are written as Python prints them, *)
(* a str keeps its quotes, and a key a dict does not have is Missing.      *)
(***************************************************************************)
PyBool == {"True", "False"}
PyStr == {"'true'", "'false'"}
Missing == "<missing>"

\* dict.get(key): None for a key that is not there
Get(v) == IF v = Missing THEN "None" ELSE v

\* bool(x) of True, False or None
Truthy(v) == v = "True"

Names == {"a", "b"}

\* The values the listing's has_password has been seen with.
HasPassword == PyBool \cup PyStr \cup {"None", Missing}

\* An entry of the get-games listing.
Games == [name : Names, has_password : HasPassword]

\* The guilds of cfg['guilds'], in the order of the dict.
Guilds == {1, 2}

\* check_games is not running; how its last run ended.
Idle(how) == [pc |-> "idle", result |-> how, games |-> <<>>, k |-> 0,
              message |-> <<>>]

\* The periods of the top lists, and the lists when there is no
\* top-lists.json.
Periods == {"day", "week", "month", "year", "all"}
NoTopLists == [key \in Periods |-> <<>>]

\* popular_cache when there is no popular.json: no name has a record.
\* A record is <<time>>, a name without one has <<>>.
NoPopular == [name \in Names |-> <<>>]

\* The state dict of a tracked entry; a key that is not set reads as None.
States == [listed : PyBool \cup {"None"}, password : PyBool \cup {"None"}]
NoState == [listed |-> "None", password |-> "None"]

\* write_config(cfg): the document the configuration file holds after it,
\* every guild's entries with their states.
write_config(c) ==
    [g \in Guilds |->
        [i \in 1..Len(c[g]) |-> [name |-> c[g][i].name,
                                 state |-> c[g][i].state]]]

(***************************************************************************)
(* schedule.py: repeat(coro, delta)                                        *)
(***************************************************************************)

\* The frame of a repeat() task that has been created but has not run yet.
\* pc: "created", "awaiting" (suspended in `await coro()`), "sleeping"
\* (suspended in `await sleep(wait)`), "cancelled" (CancelledError left
\* repeat) or "failed" (another exception left repeat).
NewTask ==
    [pc |-> "created", target |-> 0, current |-> 0, skip |-> 0, wait |-> 0,
     reported |-> <<>>, must_cancel |-> FALSE, inflight |-> 0,
     t0 |-> 0, outcome |-> "none"]

\* `await coro()`: the loop is suspended until the invocation is over.
\* (variant: the invocation is started as a task of its own)
SpawnsCoro == FALSE
AwaitsCoro == TRUE

\* The try/except around the invocation: what happens to an exception of
\* the given kind raised at `await coro()`.
\* (variants: a handler that swallows CancelledError too, and no handler)
ExceptHandlerCatchAll(exc) ==
    "continue"
ExceptHandlerNoCatch(exc) ==
    "propagate"
ExceptHandler(exc) ==
    IF exc = "CancelledError" THEN "propagate"
    ELSE IF exc = "Exception" THEN "continue"
    ELSE "continue"   \* no exception

\* skip = int((current - target) // delta) + 1
\* (variant: the target always moves by one delta)
SkipNoCatchUp(cur, tgt) == 1
Skip(cur, tgt) == ((cur - tgt) \div Delta) + 1

\* Lines 18-24: the frame after the skip/target/wait computation.
\* (variant: the line printed gives skip, not skip - 1)
ComputeReportsSkip(t, cur) ==
    LET s  == Skip(cur, t.target)
        tg == t.target + Delta * s
    IN  [t EXCEPT !.current = cur, !.skip = s, !.target = tg,
                  !.wait = tg - cur,
                  !.reported = IF s > 1 THEN <<s>> ELSE <<>>]
Compute(t, cur) ==
    LET s  == Skip(cur, t.target)
        tg == t.target + Delta * s
    IN  [t EXCEPT !.current = cur, !.skip = s, !.target = tg,
                  !.wait = tg - cur,
                  !.reported = IF s > 1 THEN <<s - 1>> ELSE <<>>]

\* `await sleep(wait)` is over.
SleepOver(t) == now >= t.current + t.wait

\* Entering `await coro()`: one more invocation is in flight.  current,
\* skip and wait are assigned again before they are read, and the line
\* printed by the previous iteration is not this iteration's.  When the
\* coroutine is not awaited the loop goes straight on to lines 18-26.
Invoke(t) ==
    LET u == [t EXCEPT !.inflight = @ + 1, !.current = 0, !.skip = 0,
                       !.wait = 0, !.reported = <<>>]
    IN  IF AwaitsCoro THEN [u EXCEPT !.pc = "awaiting"]
        ELSE [Compute(u, now) EXCEPT !.pc = "sleeping"]

\* An exception leaves repeat(): the task is done and its frame is gone.
Exit(t, how) ==
    [NewTask EXCEPT !.pc = how, !.outcome = t.outcome, !.t0 = t.t0,
                    !.inflight = t.inflight]

\* First step of the task: target = time(), then the first invocation.
TaskStart(l) ==
    /\ l <= nloops
    /\ task[l].pc = "created"
    /\ ~task[l].must_cancel
    /\ task' = [task EXCEPT ![l] =
                   Invoke([@ EXCEPT !.target = now, !.t0 = now])]
    /\ UNCHANGED <<now, checker_session, checker_loop, nloops, readied>>
    /\ UNCHANGED <<serverVars, tickVars, matchVars, cacheVars, fileVars, listVars, restVars>>

\* The invocation returns ("none") or raises ("Exception").  The frame then
\* runs, without suspending, up to `await sleep(wait)`.
CoroDone(l, exc) ==
    /\ l <= nloops
    /\ task[l].inflight > 0
    /\ ~task[l].must_cancel
    /\ now + Delta <= MaxTime
    /\ LET t == [task[l] EXCEPT !.inflight = @ - 1, !.outcome = exc]
       IN  task' = [task EXCEPT ![l] =
               IF t.pc # "awaiting" THEN t
               ELSE IF ExceptHandler(exc) = "continue"
                    THEN [Compute(t, now) EXCEPT !.pc = "sleeping"]
                    ELSE Exit(t, "failed")]
    /\ UNCHANGED <<now, checker_session, checker_loop, nloops, readied>>
    /\ UNCHANGED <<serverVars, tickVars, matchVars, cacheVars, fileVars, listVars, restVars>>

\* `await sleep(wait)` returns and the loop invokes the action again.
Wake(l) ==
    /\ l <= nloops
    /\ task[l].pc = "sleeping"
    /\ ~task[l].must_cancel
    /\ SleepOver(task[l])
    /\ task' = [task EXCEPT ![l] = Invoke(@)]
    /\ UNCHANGED <<now, checker_session, checker_loop, nloops, readied>>
    /\ UNCHANGED <<serverVars, tickVars, matchVars, cacheVars, fileVars, listVars, restVars>>

\* Task.cancel() has been called: the task's next step throws
\* CancelledError at the await it is suspended in.  In `await coro()` the
\* error passes through the invocation (which ends) and reaches the
\* try/except; in `await sleep(wait)` and before the first step it is
\* outside the try.
DeliverCancel(l) ==
    /\ l <= nloops
    /\ task[l].must_cancel
    /\ task[l].pc \in {"created", "awaiting", "sleeping"}
    /\ LET t == task[l]
           u == [t EXCEPT !.inflight = 0, !.outcome = "CancelledError",
                          !.must_cancel = FALSE]
       IN  task' = [task EXCEPT ![l] =
               IF t.pc = "awaiting"
               THEN IF ExceptHandler("CancelledError") = "propagate"
                    THEN Exit(u, "cancelled")
                    ELSE [Compute(u, now) EXCEPT !.pc = "sleeping"]
               ELSE Exit([t EXCEPT !.must_cancel = FALSE], "cancelled")]
    /\ UNCHANGED <<now, checker_session, checker_loop, nloops, readied>>
    /\ UNCHANGED <<serverVars, tickVars, matchVars, cacheVars, fileVars, listVars, restVars>>

\* A task the event loop can step now: its first step, a pending
\* cancellation, or a sleep that is over.
Ready(t) ==
    \/ t.pc = "created"
    \/ t.must_cancel
    \/ t.pc = "sleeping" /\ SleepOver(t)

\* The sleeps that are still running end at these times.
WakeTimes ==
    {task[l].current + task[l].wait :
        l \in {k \in 1..nloops : task[k].pc = "sleeping"}}

\* The next instant at which a task can take a step: an invocation in
\* flight can end at any second, a sleep ends when its timer is due.
NextInstant ==
    IF \E l \in 1..nloops : task[l].inflight > 0
    THEN now + 1
    ELSE CHOOSE w \in WakeTimes : \A v \in WakeTimes : w <= v

\* Time passes.  The event loop runs the steps that are ready before it
\* waits for the clock.  Only repeat() reads the clock: the time before the
\* first task exists is the initial value of now, and the clock is not
\* followed once no task is left.
Elapse ==
    /\ now < MaxTime
    /\ \E l \in 1..nloops : task[l].pc \in {"awaiting", "sleeping"}
    /\ \A l \in 1..nloops : ~Ready(task[l])
    /\ NextInstant <= MaxTime
    /\ now' = NextInstant
    /\ UNCHANGED <<checker_session, checker_loop, nloops, readied, task>>
    /\ UNCHANGED <<serverVars, tickVars, matchVars, cacheVars, fileVars, listVars, restVars>>

(***************************************************************************)
(* bot.py: FactorioUpbot.on_ready / cog_unload                             *)
(***************************************************************************)

\* `if self.checker_session is None:`
\* (variant: no test of checker_session)
OnReadyAlways == TRUE
OnReadyGuard == checker_session = "None"

on_ready ==
    /\ readied < MaxReady
    /\ readied' = readied + 1
    /\ IF OnReadyGuard /\ nloops < MaxLoops
       THEN /\ checker_session' = "open"
            /\ nloops' = nloops + 1
            /\ checker_loop' = nloops + 1
            /\ task' = [task EXCEPT ![nloops + 1] = NewTask]
       ELSE UNCHANGED <<checker_session, checker_loop, nloops, task>>
    /\ UNCHANGED now
    /\ UNCHANGED <<serverVars, tickVars, matchVars, cacheVars, fileVars, listVars, restVars>>

\* self.checker_loop.cancel(); create_task(self.checker_session.close())
\* Task.cancel() does nothing on a task that is done.  With checker_loop
\* None the first line raises and nothing changes.
cog_unload ==
    /\ checker_loop # 0
    /\ task' = [task EXCEPT ![checker_loop].must_cancel =
                    task[checker_loop].pc \in
                        {"created", "awaiting", "sleeping"}]
    /\ checker_session' = "closed"
    /\ UNCHANGED <<now, checker_loop, nloops, readied>>
    /\ UNCHANGED <<serverVars, tickVars, matchVars, cacheVars, fileVars, listVars, restVars>>

InitSched ==
    /\ now \in 0..MaxStart
    /\ checker_session = "None"
    /\ checker_loop = 0
    /\ nloops = 0
    /\ readied = 0
    /\ task = [l \in Loops |-> NewTask]
    /\ server_cfg = [name |-> "a", state |-> NoState]
    /\ game = <<>>
    /\ old_state = NoState
    /\ ret = <<>>
    /\ cfg = [g \in Guilds |-> <<>>]
    /\ guild_env = [g \in Guilds |-> "ok"]
    /\ tick = Idle("none")
    /\ sent = [g \in Guilds |-> <<>>]
    /\ games_cache = <<>>
    /\ snapshot = <<>>
    /\ last_check = 0
    /\ top_lists_cache = NoTopLists
    /\ popular_cache = NoPopular
    /\ nticks = 0
    /\ config_file = <<>>
    /\ top_lists_file = top_lists_cache
    /\ popular_file = popular_cache
    /\ iter = 0
    /\ toplist = <<>>
    /\ applied = <<>>
    /\ seen = {}

NextSched ==
    \/ on_ready
    \/ cog_unload
    \/ Elapse
    \/ \E l \in Loops : TaskStart(l)
    \/ \E l \in Loops : \E exc \in {"none", "Exception"} : CoroDone(l, exc)
    \/ \E l \in Loops : Wake(l)
    \/ \E l \in Loops : DeliverCancel(l)

SpecSched == InitSched /\ [][NextSched]_vars

\* The event loop runs every task step that is ready, and the clock runs.
FairSched ==
    /\ SpecSched
    /\ WF_vars(Elapse)
    /\ \A l \in Loops : WF_vars(TaskStart(l))
    /\ \A l \in Loops : WF_vars(Wake(l))
    /\ \A l \in Loops : WF_vars(DeliverCancel(l))

(***************************************************************************)
(* bot.py: fbool, check_server                                             *)
(***************************************************************************)

\* fbool(factorio_boolean); any other type raises TypeError
fbool(factorio_boolean) ==
    IF factorio_boolean \in PyBool THEN factorio_boolean
    ELSE IF factorio_boolean \in PyStr
         THEN (IF factorio_boolean = "'true'" THEN "True" ELSE "False")
         ELSE IF factorio_boolean = "None" THEN "False"
              ELSE "TypeError"

\* new_listed = bool(game)
\* (variant: without a match the flag is None)
NewListedNoneWhenAbsent(g) == IF g # <<>> THEN "True" ELSE "None"
NewListed(g) == IF g # <<>> THEN "True" ELSE "False"

\* new_password = fbool(game.get('has_password')) if game else None
\* (variant: without a match the old flag is kept)
NewPasswordKeepsOld(g, old_password) ==
    IF g # <<>> THEN fbool(Get(g[1].has_password)) ELSE old_password
NewPassword(g, old_password) ==
    IF g # <<>> THEN fbool(Get(g[1].has_password)) ELSE "None"

\* One line of the message: the icon of its list, the name, the text.
Line(icon, name, text) == [icon |-> icon, name |-> name, text |-> text]

\* Lines 299-324: the five lists after the branches on old_listed.
\* (variant: the first elif does not look at old_password)
ClassifyAnyLock(name, old_listed, old_password, new_listed, new_password) ==
    LET none == [warnings |-> <<>>, returned |-> <<>>, locked |-> <<>>,
                 unlocked |-> <<>>, infos |-> <<>>]
    IN  IF old_listed = "True" THEN
            IF ~Truthy(new_listed)
            THEN [none EXCEPT !.warnings = <<"is no longer listed">>]
            ELSE IF Truthy(new_password)
            THEN [none EXCEPT !.locked = <<"is now password protected">>]
            ELSE IF Truthy(old_password) /\ ~Truthy(new_password)
            THEN [none EXCEPT
                    !.unlocked = <<"is no longer password protected">>]
            ELSE none
        ELSE IF old_listed = "False" THEN
            IF Truthy(new_listed)
            THEN IF Truthy(new_password)
                 THEN [none EXCEPT !.locked =
                         <<"is back on the list password protected">>]
                 ELSE [none EXCEPT !.returned = <<"is back on the list">>]
            ELSE none
        ELSE IF old_listed = "None" THEN
            IF Truthy(new_listed)
            THEN IF Truthy(new_password)
                 THEN [none EXCEPT !.locked =
                         <<"is listed as password protected">>]
                 ELSE [none EXCEPT !.infos = <<"is listed">>]
            ELSE [none EXCEPT !.warnings = <<"is not listed">>]
        ELSE none
Classify(name, old_listed, old_password, new_listed, new_password) ==
    LET none == [warnings |-> <<>>, returned |-> <<>>, locked |-> <<>>,
                 unlocked |-> <<>>, infos |-> <<>>]
    IN  IF old_listed = "True" THEN
            IF ~Truthy(new_listed)
            THEN [none EXCEPT !.warnings = <<"is no longer listed">>]
            ELSE IF Truthy(new_password) /\ ~Truthy(old_password)
            THEN [none EXCEPT !.locked = <<"is now password protected">>]
            ELSE IF Truthy(old_password) /\ ~Truthy(new_password)
            THEN [none EXCEPT
                    !.unlocked = <<"is no longer password protected">>]
            ELSE none
        ELSE IF old_listed = "False" THEN
            IF Truthy(new_listed)
            THEN IF Truthy(new_password)
                 THEN [none EXCEPT !.locked =
                         <<"is back on the list password protected">>]
                 ELSE [none EXCEPT !.returned = <<"is back on the list">>]
            ELSE none
        ELSE IF old_listed = "None" THEN
            IF Truthy(new_listed)
            THEN IF Truthy(new_password)
                 THEN [none EXCEPT !.locked =
                         <<"is listed as password protected">>]
                 ELSE [none EXCEPT !.infos = <<"is listed">>]
            ELSE [none EXCEPT !.warnings = <<"is not listed">>]
        ELSE none

\* Lines 330-336: the lists joined in their fixed order, each line with
\* the icon of its list.
Lines(icon, name, texts) ==
    [i \in 1..Len(texts) |-> Line(icon, name, texts[i])]
Messages(name, lists) ==
    Lines("WARNING SIGN", name, lists.warnings)
    \o Lines("WHITE HEAVY CHECK MARK", name, lists.returned)
    \o Lines("LOCK", name, lists.locked)
    \o Lines("OPEN LOCK", name, lists.unlocked)
    \o Lines("BALLOT BOX WITH CHECK", name, lists.infos)

\* Lines 327-328: state['listed'] = new_listed; state['password'] = ...
\* (variant: the state is assigned only when a line was produced)
WriteBackOnEvent(state, new_listed, new_password, lists) ==
    IF Messages("a", lists) = <<>> THEN state
    ELSE [listed |-> new_listed, password |-> new_password]
WriteBack(state, new_listed, new_password, lists) ==
    [listed |-> new_listed, password |-> new_password]

\* Line 338: the first of the pair returned, bool(warnings).
\* (variant: any line asks for the mentions)
PingOnAnyLine(lists) == Messages("a", lists) # <<>>
Ping(lists) == lists.warnings # <<>>

\* check_server(server_cfg, game, log_channel): the entry after the call
\* and the pair returned.  g is <<>> for None, else <<the match>>.
check_server(entry, g) ==
    LET state        == entry.state
        old_listed   == state.listed
        old_password == state.password
        new_listed   == NewListed(g)
        new_password == NewPassword(g, old_password)
        name         == entry.name
        lists        == Classify(name, old_listed, old_password,
                                 new_listed, new_password)
    IN  [server_cfg |-> [entry EXCEPT !.state =
                            WriteBack(state, new_listed, new_password, lists)],
         ping       |-> Ping(lists),
         messages   |-> Messages(name, lists)]

\* The matches find_game can hand to check_server for a tracked name.
Matches(name) == {<<>>} \cup {<<g>> : g \in {h \in Games : h.name = name}}

\* One call of check_server on the entry, with any match.
CheckServer(g) ==
    /\ LET r == check_server(server_cfg, g)
       IN  /\ server_cfg' = r.server_cfg
           /\ ret' = <<[ping |-> r.ping, messages |-> r.messages]>>
    /\ game' = g
    /\ old_state' = server_cfg.state
    /\ UNCHANGED <<schedVars, tickVars, matchVars, cacheVars, fileVars, listVars, restVars>>

\* The entry comes from the configuration file with any persisted state.
InitServer ==
    /\ now = 0
    /\ checker_session = "None"
    /\ checker_loop = 0
    /\ nloops = 0
    /\ readied = 0
    /\ task = [l \in Loops |-> NewTask]
    /\ server_cfg \in [name : Names, state : States]
    /\ game = <<>>
    /\ old_state = NoState
    /\ ret = <<>>
    /\ cfg = [g \in Guilds |-> <<>>]
    /\ guild_env = [g \in Guilds |-> "ok"]
    /\ tick = Idle("none")
    /\ sent = [g \in Guilds |-> <<>>]
    /\ games_cache = <<>>
    /\ snapshot = <<>>
    /\ last_check = 0
    /\ top_lists_cache = NoTopLists
    /\ popular_cache = NoPopular
    /\ nticks = 0
    /\ config_file = <<>>
    /\ top_lists_file = top_lists_cache
    /\ popular_file = popular_cache
    /\ iter = 0
    /\ toplist = <<>>
    /\ applied = <<>>
    /\ seen = {}

NextServer == \E g \in Matches(server_cfg.name) : CheckServer(g)

SpecServer == InitServer /\ [][NextServer]_vars

(***************************************************************************)
(* bot.py: find_game, check_guild, FactorioUpbot.check_games               *)
(***************************************************************************)

\* find_game(server_cfg, games): <<the first match>>, or <<>> for None
\* (variant: the last match is returned)
find_game_last(name, games) ==
    LET matches == {i \in 1..Len(games) : games[i].name = name}
    IN  IF matches = {} THEN <<>>
        ELSE <<games[CHOOSE i \in matches : \A j \in matches : j <= i]>>
RECURSIVE find_game(_, _)
find_game(name, games) ==
    IF games = <<>> THEN <<>>
    ELSE IF Head(games).name = name THEN <<Head(games)>>
    ELSE find_game(name, Tail(games))

\* Lines 244-253 and 412-413: check_guild goes on to the entries only when
\* the guild has a log-channel-id and the id resolves to a channel, and
\* check_games calls it only when bot.get_guild() knows the guild; in every
\* other case the guild has no log channel in this tick.  A guild without
\* a 'servers' key has no entries.
GuildEnv == {"ok", "no_log_channel"}
Checks(env) == env = "ok"

\* Lines 255-262: the loop over guild_cfg['servers'], from entry i on.
\* check_server does not suspend, so the loop runs in one piece.
\* (variant: the loop ends at the first entry that produced a line)
RECURSIVE check_servers_until_event(_, _, _)
check_servers_until_event(servers, games, i) ==
    IF i > Len(servers)
    THEN [servers |-> servers, should_ping |-> FALSE, messages |-> <<>>]
    ELSE LET r    == check_server([name  |-> servers[i].name,
                                   state |-> servers[i].state],
                                  find_game(servers[i].name, games))
             done == [servers EXCEPT ![i] =
                        [name  |-> r.server_cfg.name,
                         state |-> r.server_cfg.state,
                         runs  |-> servers[i].runs + 1]]
             rest == IF r.messages # <<>>
                     THEN [servers |-> done, should_ping |-> FALSE,
                           messages |-> <<>>]
                     ELSE check_servers_until_event(done, games, i + 1)
         IN  [servers     |-> rest.servers,
              should_ping |-> r.ping \/ rest.should_ping,
              messages    |-> r.messages \o rest.messages]
RECURSIVE check_servers(_, _, _)
check_servers(servers, games, i) ==
    IF i > Len(servers)
    THEN [servers |-> servers, should_ping |-> FALSE, messages |-> <<>>]
    ELSE LET r    == check_server([name  |-> servers[i].name,
                                   state |-> servers[i].state],
                                  find_game(servers[i].name, games))
             rest == check_servers(
                        [servers EXCEPT ![i] =
                            [name  |-> r.server_cfg.name,
                             state |-> r.server_cfg.state,
                             runs  |-> servers[i].runs + 1]],
                        games, i + 1)
         IN  [servers     |-> rest.servers,
              should_ping |-> r.ping \/ rest.should_ping,
              messages    |-> r.messages \o rest.messages]

\* Snapshots the listing can return.
ListedGames == [name : Names, has_password : PyBool]
RECURSIVE SeqsUpTo(_, _)
SeqsUpTo(S, n) ==
    IF n = 0 THEN {<<>>}
    ELSE LET shorter == SeqsUpTo(S, n - 1)
         IN  shorter \cup {Append(q, x) : q \in shorter, x \in S}
Snapshots == SeqsUpTo(ListedGames, MaxGames)

\* repeat() invokes check_games: the request to the listing is under way.
\* runs counts, per entry, the check_server calls of the current tick.
TickStart ==
    /\ tick.pc = "idle"
    /\ tick' = [Idle("running") EXCEPT !.pc = "fetch"]
    /\ sent' = [g \in Guilds |-> <<>>]
    /\ cfg' = [g \in Guilds |->
                 [i \in 1..Len(cfg[g]) |-> [cfg[g][i] EXCEPT !.runs = 0]]]
    /\ UNCHANGED <<guild_env, games_cache>>
    /\ UNCHANGED <<schedVars, serverVars, matchVars, cacheVars, fileVars, listVars, restVars>>

\* Lines 397-401: the response arrives and its payload is a list.
TickFetch(games) ==
    /\ tick.pc = "fetch"
    /\ tick' = [tick EXCEPT !.pc = "guilds", !.games = games, !.k = 1]
    /\ UNCHANGED <<cfg, guild_env, sent, games_cache>>
    /\ UNCHANGED <<schedVars, serverVars, matchVars, cacheVars, fileVars, listVars, restVars>>

\* Lines 397-406: a payload that is not a list is logged and check_games
\* returns; a failed request raises.
TickFetchFails(how) ==
    /\ tick.pc = "fetch"
    /\ tick' = Idle(how)
    /\ UNCHANGED <<cfg, guild_env, sent, games_cache>>
    /\ UNCHANGED <<schedVars, serverVars, matchVars, cacheVars, fileVars, listVars, restVars>>

\* The mentions that 'role-pings' and 'member-pings' of a guild resolve to.
Mentions(g) == IF g = 1 THEN <<"<@&role>", "<@member>">> ELSE <<"<@&role>">>

\* Lines 265-275: pings, filled only if should_ping.
Pings(g, should_ping) == IF should_ping THEN Mentions(g) ELSE <<>>

\* Line 264: if messages:
\* (variant: the message is sent even when it has no line)
SendsAlways(messages) == TRUE
HasMessages(messages) == messages # <<>>

\* Lines 411-414 for the next guild, and check_guild up to its send.
TickGuild ==
    /\ tick.pc = "guilds"
    /\ tick.k \in Guilds
    /\ LET g == tick.k
           r == check_servers(cfg[g], tick.games, 1)
       IN  IF ~Checks(guild_env[g])
           THEN /\ tick' = [tick EXCEPT !.k = g + 1]
                /\ UNCHANGED cfg
           ELSE /\ cfg' = [cfg EXCEPT ![g] = r.servers]
                /\ tick' = IF ~HasMessages(r.messages)
                           THEN [tick EXCEPT !.k = g + 1]
                           ELSE [tick EXCEPT !.pc = "send",
                                    !.message = <<[lines |-> r.messages,
                                                   pings |-> Pings(g, r.should_ping)]>>]
    /\ UNCHANGED <<guild_env, sent, games_cache>>
    /\ UNCHANGED <<schedVars, serverVars, matchVars, cacheVars, fileVars, listVars, restVars>>

\* Lines 277-280: log_channel.send() is over; an HTTPException leaves
\* check_guild and check_games.
\* (variant: the exception is swallowed and the next guild is checked)
TickSendGoesOn(ok) ==
    /\ tick.pc = "send"
    /\ sent' = IF ok THEN [sent EXCEPT ![tick.k] = @ \o tick.message]
               ELSE sent
    /\ tick' = [tick EXCEPT !.pc = "guilds", !.k = @ + 1, !.message = <<>>]
    /\ UNCHANGED <<cfg, guild_env, games_cache>>
    /\ UNCHANGED <<schedVars, serverVars, matchVars, cacheVars, fileVars, listVars, restVars>>
TickSend(ok) ==
    /\ tick.pc = "send"
    /\ IF ok
       THEN /\ sent' = [sent EXCEPT ![tick.k] = @ \o tick.message]
            /\ tick' = [tick EXCEPT !.pc = "guilds", !.k = @ + 1,
                                    !.message = <<>>]
       ELSE /\ tick' = Idle("raised")
            /\ UNCHANGED sent
    /\ UNCHANGED <<cfg, guild_env, games_cache>>
    /\ UNCHANGED <<schedVars, serverVars, matchVars, cacheVars, fileVars, listVars, restVars>>

\* Lines 416-423: update_players is over; then, without suspending,
\* write_config and the caches.
TickFinish(ok) ==
    /\ tick.pc = "guilds"
    /\ tick.k \notin Guilds
    /\ IF ok
       THEN /\ games_cache' = tick.games
            /\ tick' = Idle("completed")
       ELSE /\ tick' = Idle("raised")
            /\ UNCHANGED games_cache
    /\ UNCHANGED <<cfg, guild_env, sent>>
    /\ UNCHANGED <<schedVars, serverVars, matchVars, cacheVars, fileVars, listVars, restVars>>

\* Line 259: await check_server(...).  check_server (lines 282-338) has
\* no await of its own, so the call runs through and the loop of
\* check_guild is not left between two entries.
\* (variant: check_server sends its lines itself and is suspended there)
check_server_sends == TRUE
check_server_suspends == FALSE

\* check_games is suspended, so that a command can run: it is not running,
\* or it awaits the listing, log_channel.send() or update_players().
Suspended ==
    \/ tick.pc \in {"idle", "fetch", "send"}
    \/ tick.pc = "guilds" /\ tick.k \notin Guilds
    \/ tick.pc = "entries" /\ check_server_suspends

\* Lines 758-775 of add_server in guild g: a name that is already tracked
\* is refused; else the entry is appended with its state taken from
\* games_cache.  Nothing is awaited before the append.
add_server(g, name) ==
    /\ Suspended
    /\ Len(cfg[g]) < MaxServers
    /\ \A i \in 1..Len(cfg[g]) : cfg[g][i].name # name
    /\ LET found == find_game(name, games_cache)
       IN  cfg' = [cfg EXCEPT ![g] = Append(@,
                     [name  |-> name,
                      state |-> [listed   |-> NewListed(found),
                                 password |-> NewPassword(found, "None")],
                      runs  |-> 0])]
    /\ UNCHANGED <<guild_env, tick, sent, games_cache>>
    /\ UNCHANGED <<schedVars, serverVars, matchVars, cacheVars, fileVars, listVars, restVars>>

\* The tracked lists a guild can have been given: distinct names, no state.
TrackedLists ==
    {q \in SeqsUpTo(Names, MaxServers) :
        \A i, j \in 1..Len(q) : q[i] = q[j] => i = j}

InitTick ==
    /\ now = 0
    /\ checker_session = "None"
    /\ checker_loop = 0
    /\ nloops = 0
    /\ readied = 0
    /\ task = [l \in Loops |-> NewTask]
    /\ server_cfg = [name |-> "a", state |-> NoState]
    /\ game = <<>>
    /\ old_state = NoState
    /\ ret = <<>>
    /\ \E lists \in [Guilds -> TrackedLists] :
          cfg = [g \in Guilds |->
                   [i \in 1..Len(lists[g]) |->
                      [name |-> lists[g][i], state |-> NoState, runs |-> 0]]]
    /\ guild_env \in [Guilds -> GuildEnv]
    /\ tick = Idle("none")
    /\ sent = [g \in Guilds |-> <<>>]
    /\ games_cache = <<>>
    /\ snapshot = <<>>
    /\ last_check = 0
    /\ top_lists_cache = NoTopLists
    /\ popular_cache = NoPopular
    /\ nticks = 0
    /\ config_file = <<>>
    /\ top_lists_file = top_lists_cache
    /\ popular_file = popular_cache
    /\ iter = 0
    /\ toplist = <<>>
    /\ applied = <<>>
    /\ seen = {}

NextTick ==
    \/ TickStart
    \/ \E games \in Snapshots : TickFetch(games)
    \/ \E how \in {"returned early", "raised"} : TickFetchFails(how)
    \/ TickGuild
    \/ \E ok \in BOOLEAN : TickSend(ok)
    \/ \E ok \in BOOLEAN : TickFinish(ok)

SpecTick == InitTick /\ [][NextTick]_vars

\* Lines 256-258 of check_guild for one entry: the match find_game
\* returns for it in the listing is what check_server is called with.
FindAndCheck == CheckServer(find_game(server_cfg.name, snapshot))

\* Any entry, and any listing, with names that occur more than once.
InitMatch ==
    /\ now = 0
    /\ checker_session = "None"
    /\ checker_loop = 0
    /\ nloops = 0
    /\ readied = 0
    /\ task = [l \in Loops |-> NewTask]
    /\ server_cfg \in [name : Names, state : States]
    /\ game = <<>>
    /\ old_state = NoState
    /\ ret = <<>>
    /\ cfg = [g \in Guilds |-> <<>>]
    /\ guild_env = [g \in Guilds |-> "ok"]
    /\ tick = Idle("none")
    /\ sent = [g \in Guilds |-> <<>>]
    /\ games_cache = <<>>
    /\ snapshot \in SeqsUpTo(ListedGames, MaxListing)
    /\ last_check = 0
    /\ top_lists_cache = NoTopLists
    /\ popular_cache = NoPopular
    /\ nticks = 0
    /\ config_file = <<>>
    /\ top_lists_file = top_lists_cache
    /\ popular_file = popular_cache
    /\ iter = 0
    /\ toplist = <<>>
    /\ applied = <<>>
    /\ seen = {}

NextMatch == FindAndCheck

SpecMatch == InitMatch /\ [][NextMatch]_vars

\* Ticks and commands.  Every guild has a log channel; its list in the
\* configuration file is empty or holds one entry without state, and the
\* other entries come from add_server.
InitTrack ==
    /\ now = 0
    /\ checker_session = "None"
    /\ checker_loop = 0
    /\ nloops = 0
    /\ readied = 0
    /\ task = [l \in Loops |-> NewTask]
    /\ server_cfg = [name |-> "a", state |-> NoState]
    /\ game = <<>>
    /\ old_state = NoState
    /\ ret = <<>>
    /\ \E lists \in [Guilds -> {q \in TrackedLists : Len(q) < MaxServers}] :
          cfg = [g \in Guilds |->
                   [i \in 1..Len(lists[g]) |->
                      [name |-> lists[g][i], state |-> NoState, runs |-> 0]]]
    /\ guild_env = [g \in Guilds |-> "ok"]
    /\ tick = Idle("none")
    /\ sent = [g \in Guilds |-> <<>>]
    /\ games_cache = <<>>
    /\ snapshot = <<>>
    /\ last_check = 0
    /\ top_lists_cache = NoTopLists
    /\ popular_cache = NoPopular
    /\ nticks = 0
    /\ config_file = <<>>
    /\ top_lists_file = top_lists_cache
    /\ popular_file = popular_cache
    /\ iter = 0
    /\ toplist = <<>>
    /\ applied = <<>>
    /\ seen = {}

NextTrack ==
    \/ NextTick
    \/ \E g \in Guilds, name \in Names : add_server(g, name)

SpecTrack == InitTrack /\ [][NextTrack]_vars

(***************************************************************************)
(* bot.py: update_top_lists, filter_duplicate_top_games, update_popular,   *)
(* and check_games taken as a whole                                        *)
(***************************************************************************)

\* Line 490: by_players = lambda g: len(g.get('players', [])).  An entry
\* of the listing carries the length of its players list.
by_players(g) == IF "players" \in DOMAIN g THEN g.players ELSE 0

\* sorted(..., key=by_players, reverse=True) and list.sort(...): a stable
\* sort, entries of equal key keep their order.  sort_from puts the
\* entries of q from position i on into the sorted list done, each behind
\* the entries that have at least its key.
RECURSIVE sort_from(_, _, _)
sort_from(q, i, done) ==
    IF i > Len(q) THEN done
    ELSE sort_from(q, i + 1,
            LET k == Cardinality({j \in 1..Len(done) :
                        by_players(done[j]) >= by_players(q[i])})
            IN  SubSeq(done, 1, k) \o <<q[i]>>
                    \o SubSeq(done, k + 1, Len(done)))
\* (variant: the list is left in the order it has)
not_sorted(q) == q
sort_reverse(q) == sort_from(q, 1, <<>>)

\* Lines 491 and 509: the slice [:20].
TopSize == 20
\* (variant: the list is not cut)
NoTruncate(q) == q
Truncate(q) == IF Len(q) <= TopSize THEN q ELSE SubSeq(q, 1, TopSize)

\* Line 348: 60*60*12, the period in which a name is listed once.
\* (variant: the period is an hour)
OneHour == 60*60
DuplicatePeriod == 60*60*12

Abs(x) == IF x < 0 THEN -x ELSE x

\* filter_duplicate_top_games(games), lines 342-354, from position index
\* on: kept holds the entries whose index is not marked, the times of
\* which are what listed[name] holds.
RECURSIVE filter_duplicates_from(_, _, _)
filter_duplicates_from(games, index, kept) ==
    IF index > Len(games) THEN kept
    ELSE LET g_ == games[index]
             duplicate == \E i \in 1..Len(kept) :
                             /\ kept[i].name = g_.name
                             /\ Abs(kept[i].time - g_.time) < DuplicatePeriod
         IN  filter_duplicates_from(games, index + 1,
                 IF duplicate THEN kept ELSE Append(kept, g_))

\* (variant: the marked indices are deleted from the first to the last
\* and not in reverse, so that each deletion moves the entries behind it;
\* an index past the end raises and ends the deleting)
RECURSIVE marked_from(_, _, _, _)
marked_from(games, index, kept, indices) ==
    IF index > Len(games) THEN indices
    ELSE LET g_ == games[index]
             duplicate == \E i \in 1..Len(kept) :
                             /\ kept[i].name = g_.name
                             /\ Abs(kept[i].time - g_.time) < DuplicatePeriod
         IN  IF duplicate
             THEN marked_from(games, index + 1, kept, Append(indices, index))
             ELSE marked_from(games, index + 1, Append(kept, g_), indices)
RECURSIVE delete_from(_, _, _)
delete_from(games, indices, n) ==
    IF n > Len(indices) \/ indices[n] > Len(games) THEN games
    ELSE delete_from(SubSeq(games, 1, indices[n] - 1)
                        \o SubSeq(games, indices[n] + 1, Len(games)),
                     indices, n + 1)
filter_deleting_forward(games) ==
    delete_from(games, marked_from(games, 1, <<>>, <<>>), 1)
\* filter_duplicate_top_games(games): the list after the marked indices
\* are deleted (lines 356-357).
filter_duplicate_top_games(games) == filter_duplicates_from(games, 1, <<>>)

\* Lines 493-494: game['_time'] = check_time.  The field is called time.
Stamp(g, check_time) ==
    [name |-> g.name, has_password |-> g.has_password,
     players |-> g.players, time |-> check_time]

\* The position of entry i of games in sorted(games, key=by_players,
\* reverse=True).
Place(games, i) ==
    Cardinality({j \in 1..Len(games) :
        \/ by_players(games[j]) > by_players(games[i])
        \/ by_players(games[j]) = by_players(games[i]) /\ j <= i})

\* games after lines 491-494: the entries that are in top_games carry
\* _time; they are the dicts of the list check_games holds.
Stamped(games, check_time) ==
    [i \in 1..Len(games) |->
        IF Place(games, i) <= TopSize THEN Stamp(games[i], check_time)
        ELSE games[i]]

\* Lines 496-502: cutoff[key].
\* (variant: no window has a cutoff)
NoCutoff(key, check_time) == 0
Cutoff(key, check_time) ==
    CASE key = "day"   -> check_time - 60*60*24
      [] key = "week"  -> check_time - 60*60*24*7
      [] key = "month" -> check_time - 60*60*24*30
      [] key = "year"  -> check_time - 60*60*24*365
      [] key = "all"   -> 0

\* Lines 504-509 for one key.
UpdateTopList(top_list, top_games, cutoff) ==
    LET fresh(g) == g.time >= cutoff
    IN  Truncate(filter_duplicate_top_games(
            sort_reverse(SelectSeq(top_list, fresh) \o top_games)))

\* update_top_lists(games, check_time): top_lists_cache['servers'] after it.
update_top_lists(cache, games, check_time) ==
    LET top_games == Truncate(sort_reverse(Stamped(games, check_time)))
    IN  [key \in Periods |->
            UpdateTopList(cache[key], top_games, Cutoff(key, check_time))]

\* Line 535: len(game.get('players', [])) >= 10
PopularPlayers == 10
\* (variant: more than 10 players are asked for)
IsPopularAbove(g) == by_players(g) > PopularPlayers
IsPopular(g) == by_players(g) >= PopularPlayers

\* Line 538: 60*60*12, the age at which a record is deleted.
\* (variant: the age is a day)
PopularDay == 60*60*24
PopularPeriod == 60*60*12

\* update_popular(games, check_time): popular_cache after it.
update_popular(cache, games, check_time) ==
    LET set == [name \in DOMAIN cache |->
                  IF \E i \in 1..Len(games) :
                        games[i].name = name /\ IsPopular(games[i])
                  THEN <<check_time>> ELSE cache[name]]
        cutoff == check_time - PopularPeriod
    IN  [name \in DOMAIN cache |->
            IF set[name] # <<>> /\ set[name][1] < cutoff THEN <<>>
            ELSE set[name]]

\* What check_games reads and writes.
Self ==
    [cfg |-> [g \in Guilds |->
                [i \in 1..Len(cfg[g]) |-> [cfg[g][i] EXCEPT !.runs = 0]]],
     sent |-> [g \in Guilds |-> <<>>],
     games_cache |-> games_cache, last_check |-> last_check,
     top_lists_cache |-> top_lists_cache, popular_cache |-> popular_cache]

\* Lines 401-406: a payload that is not a list is logged, and check_games
\* returns.
\* (variant: the payload is taken for an empty list)
NotAListAsEmpty(self, check_time) ==
    LET checked == [g \in Guilds |-> check_servers(self.cfg[g], <<>>, 1)]
    IN  [cfg |-> [g \in Guilds |-> checked[g].servers],
         sent |-> [g \in Guilds |->
                     IF HasMessages(checked[g].messages)
                     THEN <<[lines |-> checked[g].messages,
                             pings |-> Pings(g, checked[g].should_ping)]>>
                     ELSE <<>>],
         games_cache |-> <<>>, last_check |-> check_time,
         top_lists_cache |-> update_top_lists(self.top_lists_cache, <<>>,
                                              check_time),
         popular_cache |-> update_popular(self.popular_cache, <<>>,
                                          check_time)]
NotAList(self, check_time) == self

\* Lines 411-423 with every await returning: the guilds one after the
\* other, then last_check, games_cache and the two caches.
Completed(self, games, check_time) ==
    LET checked == [g \in Guilds |-> check_servers(self.cfg[g], games, 1)]
    IN  [cfg |-> [g \in Guilds |->
                    IF Checks(guild_env[g]) THEN checked[g].servers
                    ELSE self.cfg[g]],
         sent |-> [g \in Guilds |->
                     IF Checks(guild_env[g])
                        /\ HasMessages(checked[g].messages)
                     THEN <<[lines |-> checked[g].messages,
                             pings |-> Pings(g, checked[g].should_ping)]>>
                     ELSE <<>>],
         games_cache |-> Stamped(games, check_time),
         last_check |-> check_time,
         top_lists_cache |-> update_top_lists(self.top_lists_cache, games,
                                              check_time),
         popular_cache |-> update_popular(self.popular_cache, games,
                                          check_time)]

\* The entries of a listing with their player counts, and the listings:
\* no entry, one entry, or a name that is listed twice.
PlayerCounts == {9, 10}
PlayedGames == [name : Names, has_password : {"False"}, players : PlayerCounts]
PlayedSnapshots ==
    {<<>>} \cup {<<x>> : x \in PlayedGames}
           \cup {q \in PlayedGames \X PlayedGames : q[1].name = q[2].name}

\* The seconds from one check_time to the next: the period of the loop,
\* or a gap around twelve hours.
Gaps == {Delta, 60*60*12 - 1, 60*60*12 + 1}

\* One call of check_games from the request to its end, dt seconds after
\* the call before: the request raises, the payload is not a list, or the
\* payload is the list games and every await returns.
CheckGames(outcome, games, dt) ==
    /\ nticks < MaxTicks
    /\ nticks' = nticks + 1
    /\ now' = now + dt
    /\ \E after \in {IF outcome = "raised" THEN Self
                      ELSE IF outcome = "returned early"
                      THEN NotAList(Self, now + dt)
                      ELSE Completed(Self, games, now + dt)} :
           /\ cfg' = after.cfg
           /\ sent' = after.sent
           /\ games_cache' = after.games_cache
           /\ last_check' = after.last_check
           /\ top_lists_cache' = after.top_lists_cache
           /\ popular_cache' = after.popular_cache
           /\ IF outcome = "completed"
              THEN /\ config_file' = <<write_config(after.cfg)>>
                   /\ top_lists_file' = after.top_lists_cache
                   /\ popular_file' = after.popular_cache
              ELSE UNCHANGED fileVars
    /\ tick' = Idle(outcome)
    /\ UNCHANGED <<checker_session, checker_loop, nloops, readied, task>>
    /\ UNCHANGED <<guild_env, snapshot>>
    /\ UNCHANGED <<serverVars, listVars, iter>>

\* top-lists.json and popular.json as n earlier ticks, twelve hours
\* apart, have left them: tick j saw "a" with 30 + j players and "b"
\* with j players.
RECURSIVE Persisted(_)
Persisted(n) ==
    IF n = 0 THEN [top_lists |-> NoTopLists, popular |-> NoPopular]
    ELSE LET before == Persisted(n - 1)
             games  == <<[name |-> "a", has_password |-> "False",
                          players |-> 30 + n],
                         [name |-> "b", has_password |-> "False",
                          players |-> n]>>
             check_time == n * (60*60*12)
         IN  [top_lists |-> update_top_lists(before.top_lists, games,
                                             check_time),
              popular   |-> update_popular(before.popular, games,
                                           check_time)]

\* The cog is constructed with no files, or with the files of MaxHistory
\* ticks; guild 1 tracks "a", which has no state yet.
InitCache ==
    /\ checker_session = "None"
    /\ checker_loop = 0
    /\ nloops = 0
    /\ readied = 0
    /\ task = [l \in Loops |-> NewTask]
    /\ server_cfg = [name |-> "a", state |-> NoState]
    /\ game = <<>>
    /\ old_state = NoState
    /\ ret = <<>>
    /\ cfg = [g \in Guilds |->
                IF g = 1 THEN <<[name |-> "a", state |-> NoState, runs |-> 0]>>
                ELSE <<>>]
    /\ guild_env = [g \in Guilds |-> "ok"]
    /\ tick = Idle("none")
    /\ sent = [g \in Guilds |-> <<>>]
    /\ games_cache = <<>>
    /\ snapshot = <<>>
    /\ last_check = 0
    /\ nticks = 0
    /\ \E n \in {0, MaxHistory} :
          /\ now = n * (60*60*12)
          /\ top_lists_cache = Persisted(n).top_lists
          /\ popular_cache = Persisted(n).popular
    /\ config_file = <<>>
    /\ top_lists_file = top_lists_cache
    /\ popular_file = popular_cache
    /\ iter = 0
    /\ toplist = <<>>
    /\ applied = <<>>
    /\ seen = {}

NextCache ==
    \/ \E games \in PlayedSnapshots, dt \in Gaps :
          CheckGames("completed", games, dt) /\ UNCHANGED seen
    \/ \E how \in {"returned early", "raised"}, dt \in Gaps :
          CheckGames(how, <<>>, dt) /\ UNCHANGED seen

SpecCache == InitCache /\ [][NextCache]_vars

(***************************************************************************)
(* filter_duplicate_top_games and the rebuild of one top list, as          *)
(* functions of the list: lines 340-357 and 504-509                        *)
(***************************************************************************)

\* The entries a list can hold: a name, a player count and the _time of
\* the tick that listed it.
ListTimes == {0, 60*60*12 - 1, 60*60*12}
ListEntries ==
    [name : Names, has_password : {"False"}, players : PlayerCounts,
     time : ListTimes]
Lists == SeqsUpTo(ListEntries, MaxList)

\* What lines 507-509 store in top_lists_cache: a list in descending
\* order of players in which no name is listed twice within the period.
IsTopList(q) ==
    /\ \A i, j \in 1..Len(q) :
          i < j => by_players(q[i]) >= by_players(q[j])
    /\ filter_duplicate_top_games(q) = q

Applied(op, before, top_games, cutoff) ==
    [op |-> op, before |-> before, top_games |-> top_games,
     cutoff |-> cutoff]

\* filter_duplicate_top_games(toplist): the list is changed in place.
FilterDuplicates ==
    /\ Len(applied) < MaxPasses
    /\ toplist' = filter_duplicate_top_games(toplist)
    /\ applied' = Append(applied,
                         Applied("filter_duplicate_top_games", toplist,
                                 <<>>, 0))
    /\ UNCHANGED <<schedVars, serverVars, tickVars, matchVars, cacheVars,
                   fileVars, restVars>>

\* Lines 491-509 for one key, on a list the cache holds.
RebuildTopList(key, games, dt) ==
    /\ applied = <<>>
    /\ IsTopList(toplist)
    /\ now' = now + dt
    /\ \E top_games \in {Truncate(sort_reverse(Stamped(games, now + dt)))} :
          /\ toplist' = UpdateTopList(toplist, top_games,
                                      Cutoff(key, now + dt))
          /\ applied' = <<Applied("update_top_lists", toplist, top_games,
                                  Cutoff(key, now + dt))>>
    /\ UNCHANGED <<checker_session, checker_loop, nloops, readied, task>>
    /\ UNCHANGED <<serverVars, tickVars, matchVars, cacheVars, fileVars,
                   restVars>>

\* Any list is handed to the filter; time() is past the times in it.
InitFilter ==
    /\ now = 60*60*12
    /\ checker_session = "None"
    /\ checker_loop = 0
    /\ nloops = 0
    /\ readied = 0
    /\ task = [l \in Loops |-> NewTask]
    /\ server_cfg = [name |-> "a", state |-> NoState]
    /\ game = <<>>
    /\ old_state = NoState
    /\ ret = <<>>
    /\ cfg = [g \in Guilds |-> <<>>]
    /\ guild_env = [g \in Guilds |-> "ok"]
    /\ tick = Idle("none")
    /\ sent = [g \in Guilds |-> <<>>]
    /\ games_cache = <<>>
    /\ snapshot = <<>>
    /\ last_check = 0
    /\ top_lists_cache = NoTopLists
    /\ popular_cache = NoPopular
    /\ nticks = 0
    /\ config_file = <<>>
    /\ top_lists_file = top_lists_cache
    /\ popular_file = popular_cache
    /\ iter = 0
    /\ toplist \in Lists
    /\ applied = <<>>
    /\ seen = {}

NextFilter ==
    \/ FilterDuplicates
    \/ \E key \in {"day"}, games \in PlayedSnapshots, dt \in Gaps :
          RebuildTopList(key, games, dt)

SpecFilter == InitFilter /\ [][NextFilter]_vars

(***************************************************************************)
(* check_games with everything it writes: the tracked state, the           *)
(* configuration file, the caches and their documents, and cog_unload      *)
(* cancelling it (lines 389-427)                                           *)
(***************************************************************************)

\* The configuration load_config returned: guild 1 tracks "a", guild 2
\* tracks "b", neither has a state yet.
LoadedConfig ==
    [g \in Guilds |->
        <<[name |-> IF g = 1 THEN "a" ELSE "b", state |-> NoState,
           runs |-> 0]>>]

\* The listings the endpoint answers with.
WholeSnapshots ==
    {<<>>,
     <<[name |-> "a", has_password |-> "False", players |-> 10]>>,
     <<[name |-> "a", has_password |-> "False", players |-> 10],
       [name |-> "b", has_password |-> "False", players |-> 9]>>}

\* repeat(): the call of check_games is over and the loop sleeps until
\* the next one is due.
Sleep ==
    /\ tick.pc = "idle"
    /\ tick.result \notin {"none", "cancelled"}
    /\ nticks + 1 < MaxTicks
    /\ nticks' = nticks + 1
    /\ now' = now + Delta
    /\ tick' = Idle("none")
    /\ UNCHANGED <<checker_session, checker_loop, nloops, readied, task>>
    /\ UNCHANGED <<last_check, top_lists_cache, popular_cache>>
    /\ UNCHANGED <<cfg, guild_env, sent, games_cache>>
    /\ UNCHANGED <<serverVars, matchVars, fileVars, listVars, restVars>>

\* Line 389: repeat() calls check_games when its sleep is over.
WholeStart == tick.result = "none" /\ TickStart

\* Line 416: update_players is over; an exception of the database leaves
\* check_games.
TickPlayers(ok) ==
    /\ tick.pc = "guilds"
    /\ tick.k \notin Guilds
    /\ tick' = IF ok THEN [tick EXCEPT !.pc = "write_config"]
               ELSE Idle("raised")
    /\ UNCHANGED <<cfg, guild_env, sent, games_cache>>
    /\ UNCHANGED <<schedVars, serverVars, matchVars, cacheVars, fileVars,
                   listVars, restVars>>

\* Line 417: write_config(self.bot.my_config); when it raises, the file
\* is as it was.
TickWriteConfig(ok) ==
    /\ tick.pc = "write_config"
    /\ IF ok
       THEN /\ config_file' = <<write_config(cfg)>>
            /\ tick' = [tick EXCEPT !.pc = "caches"]
       ELSE /\ tick' = Idle("raised")
            /\ UNCHANGED config_file
    /\ UNCHANGED <<cfg, guild_env, sent, games_cache>>
    /\ UNCHANGED <<top_lists_file, popular_file>>
    /\ UNCHANGED <<schedVars, serverVars, matchVars, cacheVars, listVars,
                   restVars>>

\* Lines 419-423: last_check, games_cache, update_top_lists and
\* update_popular.  Each of the two ends by writing its document (lines
\* 511-514 and 543-546); when open() raises, the document is as it was
\* and the rest of check_games is not run.
CacheOutcomes == {"completed", "top-lists.json raised", "popular.json raised"}
TickCaches(how) ==
    /\ tick.pc = "caches"
    /\ last_check' = now
    /\ games_cache' = Stamped(tick.games, now)
    /\ top_lists_cache' = update_top_lists(top_lists_cache, tick.games, now)
    /\ IF how = "top-lists.json raised"
       THEN UNCHANGED <<top_lists_file, popular_cache, popular_file>>
       ELSE /\ top_lists_file' = top_lists_cache'
            /\ popular_cache' = update_popular(popular_cache, tick.games, now)
            /\ IF how = "popular.json raised"
               THEN UNCHANGED popular_file
               ELSE popular_file' = popular_cache'
    /\ tick' = Idle(IF how = "completed" THEN how ELSE "raised")
    /\ UNCHANGED <<cfg, guild_env, sent, config_file, nticks>>
    /\ UNCHANGED <<schedVars, serverVars, matchVars, listVars, restVars>>

\* (variant: the task can be cancelled at every statement)
AtAnyStatement == TRUE
\* cog_unload, lines 425-427: checker_loop.cancel() raises CancelledError
\* in check_games where it is suspended, or ends the sleep of repeat().
CanCancel == Suspended
CancelTick ==
    /\ CanCancel
    /\ tick.result # "cancelled"
    /\ tick' = Idle("cancelled")
    /\ UNCHANGED <<cfg, guild_env, sent, games_cache>>
    /\ UNCHANGED <<schedVars, serverVars, matchVars, cacheVars, fileVars,
                   listVars, restVars>>

InitWhole ==
    /\ now = Delta
    /\ checker_session = "None"
    /\ checker_loop = 0
    /\ nloops = 0
    /\ readied = 0
    /\ task = [l \in Loops |-> NewTask]
    /\ server_cfg = [name |-> "a", state |-> NoState]
    /\ game = <<>>
    /\ old_state = NoState
    /\ ret = <<>>
    /\ cfg = LoadedConfig
    /\ guild_env = [g \in Guilds |-> "ok"]
    /\ tick = Idle("none")
    /\ sent = [g \in Guilds |-> <<>>]
    /\ games_cache = <<>>
    /\ snapshot = <<>>
    /\ last_check = 0
    /\ top_lists_cache = NoTopLists
    /\ popular_cache = NoPopular
    /\ nticks = 0
    /\ config_file = <<>>
    /\ top_lists_file = top_lists_cache
    /\ popular_file = popular_cache
    /\ iter = 0
    /\ toplist = <<>>
    /\ applied = <<>>
    /\ seen = {}

NextWhole ==
    \/ Sleep
    \/ WholeStart
    \/ \E games \in WholeSnapshots : TickFetch(games)
    \/ \E how \in {"returned early", "raised"} : TickFetchFails(how)
    \/ TickGuild
    \/ \E ok \in BOOLEAN : TickSend(ok)
    \/ \E ok \in BOOLEAN : TickPlayers(ok)
    \/ \E ok \in BOOLEAN : TickWriteConfig(ok)
    \/ \E how \in CacheOutcomes : TickCaches(how)
    \/ CancelTick

SpecWhole == InitWhole /\ [][NextWhole]_vars

(***************************************************************************)
(* The commands that change a guild's tracked list: add-server, add-all,   *)
(* remove-server and remove-all (lines 756-886), with ticks going on       *)
(***************************************************************************)

\* pattern in name, for names of one character: the empty pattern is in
\* every name.
Patterns == {""} \cup Names
Contains(pattern, name) == pattern = "" \/ pattern = name

RECURSIVE Without(_, _, _)
Without(servers, indices, i) ==
    IF i > Len(servers) THEN <<>>
    ELSE (IF i \in indices THEN <<>> ELSE <<servers[i]>>)
            \o Without(servers, indices, i + 1)

\* Line 808: len(to_add) > 100.
AddAllLimit == 100

\* Lines 797-806: to_add, the entries of games_cache from position i on
\* whose name holds the pattern and is no name of server_cfgs.
RECURSIVE to_add_from(_, _, _, _)
to_add_from(games, server_cfgs, pattern, i) ==
    IF i > Len(games) THEN <<>>
    ELSE (IF /\ Contains(pattern, games[i].name)
             /\ \A j \in 1..Len(server_cfgs) :
                   server_cfgs[j].name # games[i].name
          THEN <<games[i]>> ELSE <<>>)
            \o to_add_from(games, server_cfgs, pattern, i + 1)

\* add_all(ctx, pattern), lines 784-826, where it changes the list: the
\* pattern is not empty and to_add has between 1 and 100 entries.
add_all(g, pattern) ==
    /\ Suspended
    /\ pattern # ""
    /\ LET to_add == to_add_from(games_cache, cfg[g], pattern, 1)
       IN  /\ to_add # <<>>
           /\ Len(to_add) <= AddAllLimit
           /\ Len(cfg[g]) + Len(to_add) <= MaxServers
           /\ cfg' = [cfg EXCEPT ![g] = @ \o
                        [i \in 1..Len(to_add) |->
                           [name  |-> to_add[i].name,
                            state |-> [listed   |-> "True",
                                       password |->
                                          fbool(Get(to_add[i].has_password))],
                            runs  |-> 0]]]
    /\ UNCHANGED <<guild_env, tick, sent, games_cache>>
    /\ UNCHANGED <<schedVars, serverVars, matchVars, cacheVars, fileVars,
                   listVars, restVars>>

\* remove_server(ctx, name), lines 831-851, where it changes the list:
\* the first entry of that name is deleted.
remove_server(g, name) ==
    /\ Suspended
    /\ \E index \in 1..Len(cfg[g]) :
          /\ cfg[g][index].name = name
          /\ \A j \in 1..(index - 1) : cfg[g][j].name # name
          /\ cfg' = [cfg EXCEPT ![g] = Without(@, {index}, 1)]
    /\ UNCHANGED <<guild_env, tick, sent, games_cache>>
    /\ UNCHANGED <<schedVars, serverVars, matchVars, cacheVars, fileVars,
                   listVars, restVars>>

\* remove_all(ctx, pattern), lines 856-886, where it changes the list:
\* the list is not empty and some name holds the pattern.
remove_all(g, pattern) ==
    /\ Suspended
    /\ LET indices_to_remove ==
             {i \in 1..Len(cfg[g]) : Contains(pattern, cfg[g][i].name)}
       IN  /\ indices_to_remove # {}
           /\ cfg' = [cfg EXCEPT ![g] = Without(@, indices_to_remove, 1)]
    /\ UNCHANGED <<guild_env, tick, sent, games_cache>>
    /\ UNCHANGED <<schedVars, serverVars, matchVars, cacheVars, fileVars,
                   listVars, restVars>>

\* The listings of the ticks: a name can be listed twice.
ListedTwice ==
    {<<>>,
     <<[name |-> "a", has_password |-> "False"]>>,
     <<[name |-> "a", has_password |-> "False"],
       [name |-> "b", has_password |-> "False"]>>,
     <<[name |-> "a", has_password |-> "False"],
       [name |-> "a", has_password |-> "True"]>>}

\* The guilds in which the commands are given.
Commanded == {1}

\* No guild tracks anything yet.
InitLists ==
    /\ now = 0
    /\ checker_session = "None"
    /\ checker_loop = 0
    /\ nloops = 0
    /\ readied = 0
    /\ task = [l \in Loops |-> NewTask]
    /\ server_cfg = [name |-> "a", state |-> NoState]
    /\ game = <<>>
    /\ old_state = NoState
    /\ ret = <<>>
    /\ cfg = [g \in Guilds |-> <<>>]
    /\ guild_env = [g \in Guilds |-> "ok"]
    /\ tick = Idle("none")
    /\ sent = [g \in Guilds |-> <<>>]
    /\ games_cache = <<>>
    /\ snapshot = <<>>
    /\ last_check = 0
    /\ top_lists_cache = NoTopLists
    /\ popular_cache = NoPopular
    /\ nticks = 0
    /\ config_file = <<>>
    /\ top_lists_file = top_lists_cache
    /\ popular_file = popular_cache
    /\ iter = 0
    /\ toplist = <<>>
    /\ applied = <<>>
    /\ seen = {}

NextLists ==
    \/ TickStart
    \/ \E games \in ListedTwice : TickFetch(games)
    \/ \E how \in {"returned early", "raised"} : TickFetchFails(how)
    \/ TickGuild
    \/ \E ok \in BOOLEAN : TickSend(ok)
    \/ \E ok \in BOOLEAN : TickFinish(ok)
    \/ \E g \in Commanded, name \in Names : add_server(g, name)
    \/ \E g \in Commanded, pattern \in Patterns : add_all(g, pattern)
    \/ \E g \in Commanded, name \in Names : remove_server(g, name)
    \/ \E g \in Commanded, pattern \in Patterns : remove_all(g, pattern)

SpecLists == InitLists /\ [][NextLists]_vars

(***************************************************************************)
(* The loop of check_guild over a guild's entries, entry by entry (lines   *)
(* 255-262), with add-server and remove-server given meanwhile             *)
(***************************************************************************)

\* Lines 244-257: check_guild reaches its loop; iter is the position of
\* the list iterator, messages and should_ping start empty.
GuildLoop ==
    /\ tick.pc = "guilds"
    /\ tick.k \in Guilds
    /\ IF Checks(guild_env[tick.k])
       THEN /\ tick' = [tick EXCEPT !.pc = "entries",
                           !.message = <<[lines |-> <<>>, pings |-> <<>>]>>]
            /\ iter' = 0
       ELSE /\ tick' = [tick EXCEPT !.k = @ + 1]
            /\ UNCHANGED iter
    /\ UNCHANGED <<cfg, guild_env, sent, games_cache, seen>>
    /\ UNCHANGED <<schedVars, serverVars, matchVars, cacheVars, fileVars,
                   listVars>>

\* Lines 257-262: the iterator hands out the entry at its position, if
\* the list has one there, and check_server is run on it.
GuildEntry ==
    /\ tick.pc = "entries"
    /\ iter < Len(cfg[tick.k])
    /\ LET g == tick.k
           e == cfg[g][iter + 1]
           r == check_server([name |-> e.name, state |-> e.state],
                             find_game(e.name, tick.games))
           m == tick.message[1]
       IN  /\ cfg' = [cfg EXCEPT ![g][iter + 1] =
                         [name  |-> r.server_cfg.name,
                          state |-> r.server_cfg.state,
                          runs  |-> e.runs + 1]]
           /\ tick' = [tick EXCEPT !.message =
                         <<[lines |-> m.lines \o r.messages,
                            pings |-> IF r.ping THEN Pings(g, TRUE)
                                      ELSE m.pings]>>]
    /\ iter' = iter + 1
    /\ UNCHANGED <<guild_env, sent, games_cache, seen>>
    /\ UNCHANGED <<schedVars, serverVars, matchVars, cacheVars, fileVars,
                   listVars>>

\* Lines 257 and 264: the iterator is past the end of the list; the
\* message is sent if it has a line.
GuildLoopEnd ==
    /\ tick.pc = "entries"
    /\ iter >= Len(cfg[tick.k])
    /\ tick' = IF HasMessages(tick.message[1].lines)
               THEN [tick EXCEPT !.pc = "send"]
               ELSE [tick EXCEPT !.pc = "guilds", !.k = @ + 1,
                                 !.message = <<>>]
    /\ UNCHANGED <<cfg, guild_env, sent, games_cache>>
    /\ UNCHANGED <<schedVars, serverVars, matchVars, cacheVars, fileVars,
                   listVars, restVars>>

\* Guild 1 tracks "a" and "b", guild 2 nothing.
InitIter ==
    /\ now = 0
    /\ checker_session = "None"
    /\ checker_loop = 0
    /\ nloops = 0
    /\ readied = 0
    /\ task = [l \in Loops |-> NewTask]
    /\ server_cfg = [name |-> "a", state |-> NoState]
    /\ game = <<>>
    /\ old_state = NoState
    /\ ret = <<>>
    /\ cfg = [g \in Guilds |->
                IF g = 1
                THEN <<[name |-> "a", state |-> NoState, runs |-> 0],
                       [name |-> "b", state |-> NoState, runs |-> 0]>>
                ELSE <<>>]
    /\ guild_env = [g \in Guilds |-> "ok"]
    /\ tick = Idle("none")
    /\ sent = [g \in Guilds |-> <<>>]
    /\ games_cache = <<>>
    /\ snapshot = <<>>
    /\ last_check = 0
    /\ top_lists_cache = NoTopLists
    /\ popular_cache = NoPopular
    /\ nticks = 0
    /\ config_file = <<>>
    /\ top_lists_file = top_lists_cache
    /\ popular_file = popular_cache
    /\ iter = 0
    /\ toplist = <<>>
    /\ applied = <<>>
    /\ seen = {}

NextIter ==
    \/ TickStart
    \/ \E games \in ListedTwice : TickFetch(games)
    \/ GuildLoop
    \/ GuildEntry
    \/ GuildLoopEnd
    \/ \E ok \in BOOLEAN : TickSend(ok)
    \/ \E ok \in BOOLEAN : TickFinish(ok)
    \/ \E g \in Commanded, name \in Names : add_server(g, name)
    \/ \E g \in Commanded, name \in Names : remove_server(g, name)

SpecIter == InitIter /\ [][NextIter]_vars

(***************************************************************************)
(* The top lists over ticks that are a day apart, with what the ticks      *)
(* have seen                                                               *)
(***************************************************************************)

\* What a tick that completes adds to the entries seen: the player count
\* of every entry of its listing, with the time of the tick.
Observed(games, check_time) ==
    {[players |-> by_players(games[i]), time |-> check_time] :
        i \in 1..Len(games)}

\* The cog is constructed with the files of one earlier tick, which saw
\* "a" with 31 players and "b" with one.
InitRank ==
    /\ now = 60*60*12
    /\ checker_session = "None"
    /\ checker_loop = 0
    /\ nloops = 0
    /\ readied = 0
    /\ task = [l \in Loops |-> NewTask]
    /\ server_cfg = [name |-> "a", state |-> NoState]
    /\ game = <<>>
    /\ old_state = NoState
    /\ ret = <<>>
    /\ cfg = [g \in Guilds |->
                IF g = 1 THEN <<[name |-> "a", state |-> NoState, runs |-> 0]>>
                ELSE <<>>]
    /\ guild_env = [g \in Guilds |-> "ok"]
    /\ tick = Idle("none")
    /\ sent = [g \in Guilds |-> <<>>]
    /\ games_cache = <<>>
    /\ snapshot = <<>>
    /\ last_check = 0
    /\ top_lists_cache = Persisted(1).top_lists
    /\ popular_cache = Persisted(1).popular
    /\ nticks = 0
    /\ config_file = <<>>
    /\ top_lists_file = top_lists_cache
    /\ popular_file = popular_cache
    /\ iter = 0
    /\ toplist = <<>>
    /\ applied = <<>>
    /\ seen = {[players |-> 31, time |-> now], [players |-> 1, time |-> now]}

\* The ticks are a minute or a day apart.
RankGaps == {Delta, 60*60*24}

NextRank ==
    \/ \E games \in PlayedSnapshots, dt \in RankGaps :
          /\ CheckGames("completed", games, dt)
          /\ seen' = seen \cup Observed(games, now + dt)
    \/ \E how \in {"returned early", "raised"}, dt \in RankGaps :
          CheckGames(how, <<>>, dt) /\ UNCHANGED seen

SpecRank == InitRank /\ [][NextRank]_vars

(***************************************************************************)
(* Properties of the scheduler                                             *)
(***************************************************************************)

\* An invocation of the action starts in this step of task l.
Starts(l) == task'[l].inflight > task[l].inflight

\* The invocation task l awaits ends in this step, by return or exception,
\* and the loop goes on to its sleep.
Completes(l) == task[l].pc = "awaiting" /\ task'[l].pc = "sleeping"

RECURSIVE InFlight(_)
InFlight(n) == IF n = 0 THEN 0 ELSE task[n].inflight + InFlight(n - 1)

\* C1: in repeat() at most one invocation of the action is in flight; the
\* loop is at its skip/target/wait computation and sleep only when no
\* invocation is in flight, and an invocation starts only as the first step
\* of the task or when the sleep of the previous iteration is over.
C1_OneInvocationInFlight ==
    /\ [](\A l \in Loops :
            /\ task[l].inflight <= 1
            /\ task[l].pc = "sleeping" => task[l].inflight = 0
            /\ task[l].pc = "awaiting" => task[l].inflight = 1)
    /\ [][\A l \in Loops :
            Starts(l) =>
               \/ task[l].pc = "created"
               \/ task[l].pc = "sleeping" /\ task[l].inflight = 0
                  /\ now >= task[l].current + task[l].wait]_vars

\* A second or later invocation is in flight, after a sleep.
C1_Witness ==
    \E l \in Loops : /\ task[l].pc = "awaiting" /\ task[l].inflight = 1
                     /\ task[l].target > task[l].t0

\* C2: when an invocation raises a non-cancellation exception the loop goes
\* on: the next target is computed as after a return, the loop sleeps, and
\* a later invocation follows unless the loop is cancelled.
C2_SurvivesException ==
    /\ [][\A l \in Loops :
            (task[l].pc = "awaiting" /\ task'[l].outcome = "Exception"
             /\ task'[l].inflight < task[l].inflight) =>
               /\ task'[l].pc = "sleeping"
               /\ task'[l].target = task[l].target
                    + Delta * (((now - task[l].target) \div Delta) + 1)
               /\ task'[l].wait = task'[l].target - now]_vars
    /\ \A l \in Loops :
          (task[l].outcome = "Exception" /\ task[l].inflight = 0)
             ~> (task[l].inflight = 1 \/ task[l].must_cancel
                 \/ task[l].pc = "cancelled")

\* The invocation after one that raised is in flight.
C2_Witness ==
    \E l \in Loops : /\ task[l].pc = "awaiting"
                     /\ task[l].outcome = "Exception"
                     /\ task[l].target > task[l].t0

\* C3: once the scheduler task is cancelled, during the action or during
\* the sleep, no invocation starts any more, the loop takes no other step,
\* and repeat() ends with the cancellation propagated.
C3_CancelStops ==
    /\ [][\A l \in Loops :
            (task[l].must_cancel \/ task[l].pc = "cancelled") =>
               /\ ~Starts(l)
               /\ task'[l].pc \in {task[l].pc, "cancelled"}]_vars
    /\ \A l \in Loops : task[l].must_cancel ~> task[l].pc = "cancelled"

\* The cancellation arrived while the action was running.
C3_Witness ==
    \E l \in Loops : /\ task[l].pc = "cancelled"
                     /\ task[l].outcome = "CancelledError"

\* C4: after an invocation completes at time c the next target is the
\* smallest t0 + k*delta, k >= 1, strictly greater than c; the sleep is in
\* (0, delta]; and the one next invocation starts at or after that target,
\* never before it.
C4_NextTarget ==
    [][\A l \in Loops :
         /\ Completes(l) =>
              /\ \E k \in 1..MaxTime :
                    /\ task'[l].target = task[l].t0 + k * Delta
                    /\ task'[l].target > now
                    /\ \A j \in 1..(k - 1) : task[l].t0 + j * Delta <= now
              /\ task'[l].wait \in 1..Delta
              /\ task'[l].wait = task'[l].target - now
         /\ (Starts(l) /\ task[l].pc = "sleeping") =>
              /\ now >= task[l].target
              /\ task[l].target > task[l].current
              /\ task'[l].inflight = 1]_vars

\* An invocation overran at least two target times and the loop sleeps
\* until the next one.
C4_Witness ==
    \E l \in Loops : /\ task[l].pc = "sleeping" /\ task[l].skip >= 3
                     /\ task[l].wait < Delta

\* C5: with interval 60, an invocation that completes 185 seconds after
\* the target moves the target by 240 and reports 3 skipped target times;
\* the reported count is floor(elapsed / interval), reported only when it
\* is at least 1.
C5_SkipArithmetic ==
    [][\A l \in Loops :
         Completes(l) =>
            LET elapsed == now - task[l].target
            IN  /\ Delta = 60
                /\ task'[l].reported =
                      IF elapsed \div 60 >= 1 THEN <<elapsed \div 60>>
                      ELSE <<>>
                /\ elapsed = 185 =>
                      /\ task'[l].target = task[l].target + 240
                      /\ task'[l].reported = <<3>>]_vars

\* The first invocation completed 185 seconds after t0.
C5_Witness ==
    \E l \in Loops : /\ task[l].pc = "sleeping"
                     /\ task[l].current = task[l].t0 + 185
                     /\ task[l].target = task[l].t0 + 240
                     /\ task[l].reported = <<3>>

\* C6: however often the ready event fires, at most one scheduler loop is
\* created, and no two invocations of the tick body are in flight.
C6_SingleLoop ==
    /\ nloops <= 1
    /\ InFlight(MaxLoops) <= 1

\* The ready event fired again while a tick was in flight.
C6_Witness ==
    /\ readied >= 2
    /\ nloops = 1
    /\ task[1].inflight = 1

(***************************************************************************)
(* Properties of the classifier                                            *)
(***************************************************************************)

\* A call of check_server has been made.
Called == ret # <<>>

\* The password flag of a match: has_password True or 'true'.
Locked(g) == g[1].has_password \in {"True", "'true'"}

\* The transition table: the event for a previous state and a match, as
\* <<class, text>>, or <<>> for none.
TableEvent(old, g) ==
    IF old.listed = "True" THEN
        IF g = <<>> THEN <<"Warning", "is no longer listed">>
        ELSE IF Locked(g) /\ old.password # "True"
             THEN <<"Locked", "is now password protected">>
        ELSE IF ~Locked(g) /\ old.password = "True"
             THEN <<"Unlocked", "is no longer password protected">>
        ELSE <<>>
    ELSE IF old.listed = "False" THEN
        IF g = <<>> THEN <<>>
        ELSE IF Locked(g)
             THEN <<"Locked", "is back on the list password protected">>
             ELSE <<"Returned", "is back on the list">>
    ELSE
        IF g = <<>> THEN <<"Warning", "is not listed">>
        ELSE IF Locked(g)
             THEN <<"Locked", "is listed as password protected">>
             ELSE <<"Info", "is listed">>

\* The class a line's icon stands for.
ClassOf(icon) ==
    CASE icon = "WARNING SIGN" -> "Warning"
      [] icon = "WHITE HEAVY CHECK MARK" -> "Returned"
      [] icon = "LOCK" -> "Locked"
      [] icon = "OPEN LOCK" -> "Unlocked"
      [] icon = "BALLOT BOX WITH CHECK" -> "Info"

\* C7: for every previous state and every match check_server emits at most
\* one event, and it is the event of the transition table.
C7_TransitionTable ==
    Called =>
       LET e == TableEvent(old_state, game)
       IN  /\ Len(ret[1].messages) <= 1
           /\ e = <<>> => ret[1].messages = <<>>
           /\ e # <<>> =>
                 /\ Len(ret[1].messages) = 1
                 /\ ClassOf(ret[1].messages[1].icon) = e[1]
                 /\ ret[1].messages[1].text = e[2]
                 /\ ret[1].messages[1].name = server_cfg.name

\* A listed entry without password was matched with a password.
C7_Witness ==
    /\ Called
    /\ old_state = [listed |-> "True", password |-> "False"]
    /\ game # <<>> /\ Locked(game)
    /\ Len(ret[1].messages) = 1 /\ ret[1].messages[1].icon = "LOCK"

\* C8: every call of check_server writes the state back, also when no
\* event is emitted: listed is whether a match was present and, with a
\* match, password is the match's flag, a missing has_password being false.
C8_StateWrittenBack ==
    Called =>
       /\ server_cfg.state.listed = (IF game # <<>> THEN "True" ELSE "False")
       /\ game # <<>> =>
             server_cfg.state.password =
                (IF Locked(game) THEN "True" ELSE "False")

\* No event was emitted, the match had no has_password, and the state
\* changed.
C8_Witness ==
    /\ Called
    /\ ret[1].messages = <<>>
    /\ game # <<>> /\ game[1].has_password = Missing
    /\ server_cfg.state # old_state
    /\ server_cfg.state = [listed |-> "True", password |-> "False"]

\* C9 as claimed: an entry {listed: true, passworded: true} that is absent
\* gets Warning 'is no longer listed' and keeps passworded true.
C9_PasswordKeptOnAbsence ==
    (Called /\ game = <<>>
     /\ old_state = [listed |-> "True", password |-> "True"]) =>
       /\ Len(ret[1].messages) = 1
       /\ ret[1].messages[1].icon = "WARNING SIGN"
       /\ ret[1].messages[1].text = "is no longer listed"
       /\ server_cfg.state = [listed |-> "False", password |-> "True"]

\* C9 as amended: an entry {listed: true, passworded: true} that is absent
\* gets Warning 'is no longer listed' and its state becomes {listed: false,
\* passworded: None}; whenever the entry is absent passworded is reset.
C9_PasswordResetOnAbsence ==
    /\ (Called /\ game = <<>>
        /\ old_state = [listed |-> "True", password |-> "True"]) =>
          /\ Len(ret[1].messages) = 1
          /\ ret[1].messages[1].icon = "WARNING SIGN"
          /\ ret[1].messages[1].text = "is no longer listed"
          /\ server_cfg.state = [listed |-> "False", password |-> "None"]
    /\ (Called /\ game = <<>>) => server_cfg.state.password = "None"

\* A listed, password protected entry was found absent.
C9_Witness ==
    /\ Called /\ game = <<>>
    /\ old_state = [listed |-> "True", password |-> "True"]
    /\ ret[1].ping

(***************************************************************************)
(* Properties of the tick                                                  *)
(***************************************************************************)

\* The snapshot has an entry with this name.
Present(name, games) == \E i \in 1..Len(games) : games[i].name = name

\* check_games ran to its end; games_cache is the snapshot it received.
TickCompleted == tick.pc = "idle" /\ tick.result = "completed"

\* C10 as claimed: in every tick that receives a snapshot and completes,
\* every tracked entry of every guild is classified exactly once, and
\* afterwards every entry's listed flag is its presence in the snapshot.
C10_EveryEntryClassified ==
    TickCompleted =>
       \A g \in Guilds : \A i \in 1..Len(cfg[g]) :
          /\ cfg[g][i].runs = 1
          /\ cfg[g][i].state.listed =
                (IF Present(cfg[g][i].name, games_cache) THEN "True"
                 ELSE "False")

\* C10 as amended: in every tick that receives a snapshot and completes,
\* every tracked entry of every guild that the bot knows and whose log
\* channel is set and resolves is classified exactly once, and afterwards
\* the listed flag of each of these entries is its presence in the
\* snapshot; the entries of the other guilds are not classified.
C10_EntriesWithLogChannelClassified ==
    TickCompleted =>
       \A g \in Guilds : \A i \in 1..Len(cfg[g]) :
          /\ guild_env[g] = "ok" =>
                /\ cfg[g][i].runs = 1
                /\ cfg[g][i].state.listed =
                      (IF Present(cfg[g][i].name, games_cache) THEN "True"
                       ELSE "False")
          /\ guild_env[g] # "ok" => cfg[g][i].runs = 0

\* A completed tick classified a guild with one entry in the snapshot and
\* one not in it, after a tick in which the first was not in the snapshot.
C10_Witness ==
    /\ TickCompleted
    /\ \E g \in Guilds :
          /\ guild_env[g] = "ok"
          /\ Len(cfg[g]) = 2
          /\ cfg[g][1].state.listed = "True"
          /\ cfg[g][2].state.listed = "False"
          /\ Len(sent[g]) = 1
          /\ sent[g][1].lines[1].icon = "WHITE HEAVY CHECK MARK"

(***************************************************************************)
(* Properties of ticks and commands                                        *)
(***************************************************************************)

\* Entry i of guild g is in the list before and after the step.
Stays(g, i) ==
    /\ i \in 1..Len(cfg[g])
    /\ i \in 1..Len(cfg'[g])
    /\ cfg'[g][i].name = cfg[g][i].name

\* C11: over ticks and add_server calls, the listed flag of a tracked
\* entry that is True or False never becomes None again, and an entry that
\* add_server appends starts with the flag True or False; so the flag
\* leaves None at most once.
C11_ListedNeverUnsetAgain ==
    [][\A g \in Guilds :
          /\ Len(cfg'[g]) >= Len(cfg[g])
          /\ \A i \in 1..Len(cfg[g]) :
                /\ Stays(g, i)
                /\ cfg[g][i].state.listed # "None"
                      => cfg'[g][i].state.listed \in PyBool
          /\ \A i \in (Len(cfg[g]) + 1)..Len(cfg'[g]) :
                cfg'[g][i].state.listed \in PyBool]_vars

\* A guild whose message of this tick reports an entry as no longer listed
\* (its flag went from True to False), and which was then given an entry
\* that add_server seeded as listed.
C11_Witness ==
    \E g \in Guilds : \E i, j \in 1..Len(cfg[g]) :
        /\ cfg[g][i].state.listed = "False"
        /\ sent[g] # <<>>
        /\ \E n \in 1..Len(sent[g][1].lines) :
              /\ sent[g][1].lines[n].name = cfg[g][i].name
              /\ sent[g][1].lines[n].text = "is no longer listed"
        /\ cfg[g][j].runs = 0
        /\ cfg[g][j].state.listed = "True"

\* The messages of the current tick: those sent, and the one whose send
\* is awaited.
TickMessages(g) ==
    IF tick.pc = "send" /\ tick.k = g THEN sent[g] \o tick.message
    ELSE sent[g]

\* The priority of the class an icon stands for.
Rank(icon) ==
    CASE icon = "WARNING SIGN"            -> 1
      [] icon = "WHITE HEAVY CHECK MARK"  -> 2
      [] icon = "LOCK"                    -> 3
      [] icon = "OPEN LOCK"               -> 4
      [] icon = "BALLOT BOX WITH CHECK"   -> 5

\* C12: in the message composed for one guild in one tick the lines of
\* all its entries are in class-priority order (Warning, Returned, Locked,
\* Unlocked, Info), whatever the order of the entries in the list.
C12_ClassPriorityOrder ==
    \A g \in Guilds : \A n \in 1..Len(TickMessages(g)) :
        LET lines == TickMessages(g)[n].lines
        IN  \A i, j \in 1..Len(lines) :
                i < j => Rank(lines[i].icon) <= Rank(lines[j].icon)

\* An entry of guild g has an event by the transition table when the guild
\* is checked against the snapshot of the tick.
Emitted(g) ==
    /\ Checks(guild_env[g])
    /\ \E i \in 1..Len(cfg[g]) :
          TableEvent(cfg[g][i].state,
                     find_game(cfg[g][i].name, tick.games)) # <<>>

\* A step of check_guild calls log_channel.send() exactly when an entry of
\* its guild has an event, and no other step calls it.
SendsOnEvent ==
    /\ (tick.pc = "guilds" /\ tick.k \in Guilds) =>
          (tick'.pc = "send" <=> Emitted(tick.k))
    /\ (tick.pc # "guilds" /\ tick'.pc = "send") => tick' = tick

\* C13: per tick and per guild log_channel.send() is called at most once:
\* once when an entry of the guild has an event in this tick, not at all
\* when none has.
C13_OneSendPerGuild ==
    /\ [](\A g \in Guilds : Len(TickMessages(g)) <= 1)
    /\ [][SendsOnEvent]_vars

\* A completed tick in which guild 1 got its one message and guild 2,
\* whose entries were classified without an event, got none.
C13_Witness ==
    /\ TickCompleted
    /\ Len(sent[1]) = 1
    /\ sent[2] = <<>>
    /\ guild_env[2] = "ok"
    /\ cfg[2] # <<>>
    /\ \A i \in 1..Len(cfg[2]) : cfg[2][i].runs = 1

\* The message has a line of a Warning event.
Warns(message) ==
    \E n \in 1..Len(message.lines) :
        message.lines[n].text \in {"is no longer listed", "is not listed"}

\* C14: the message of a guild in a tick carries the mentions configured
\* for the guild if and only if one of its lines is a Warning event ("is
\* no longer listed" or "is not listed"); without one it carries none.
C14_MentionsIffWarning ==
    \A g \in Guilds : \A n \in 1..Len(TickMessages(g)) :
        LET message == TickMessages(g)[n]
        IN  /\ Warns(message) => message.pings = Mentions(g)
            /\ ~Warns(message) => message.pings = <<>>

\* Guild 1 was sent a Warning with its mentions, guild 2 a message of
\* another class without mentions.
C14_Witness ==
    /\ sent[1] # <<>> /\ Warns(sent[1][1])
    /\ sent[1][1].pings = Mentions(1)
    /\ sent[2] # <<>> /\ ~Warns(sent[2][1])
    /\ sent[2][1].pings = <<>>

(***************************************************************************)
(* Properties of find_game                                                 *)
(***************************************************************************)

\* The positions of the listing whose entry has the name of server_cfg.
Named == {i \in 1..Len(snapshot) : snapshot[i].name = server_cfg.name}

\* C15: find_game returns the entry of the listing at the least position
\* whose name is the tracked name, and None when no entry has the name;
\* the classification uses that entry alone: the state stored is the one
\* of the first entry, whatever the later entries of the same name say.
C15_FirstMatch ==
    Called =>
        IF Named = {}
        THEN /\ game = <<>>
             /\ server_cfg.state.listed = "False"
        ELSE LET first == CHOOSE i \in Named : \A j \in Named : i <= j
             IN  /\ game = <<snapshot[first]>>
                 /\ server_cfg.state.listed = "True"
                 /\ server_cfg.state.password = snapshot[first].has_password

\* The listing has the tracked name twice, with different password
\* flags, behind an entry of another name.
C15_Witness ==
    /\ Called
    /\ \E i, j \in Named :
          /\ 1 < i /\ i < j
          /\ snapshot[i].has_password # snapshot[j].has_password

(***************************************************************************)
(* Properties of the top lists and of the popular servers                  *)
(***************************************************************************)

\* C16 as claimed: after every tick each of the five top lists has at
\* most 20 entries and is strictly descending by player count: no two
\* adjacent entries have the same count.
C16_StrictlyDescending ==
    \A key \in Periods :
        LET top == top_lists_cache[key]
        IN  /\ Len(top) <= 20
            /\ \A i \in 1..(Len(top) - 1) :
                  by_players(top[i]) > by_players(top[i + 1])

\* C16 as amended: after every tick each of the five top lists has at
\* most 20 entries and is descending by player count, adjacent entries
\* of equal count allowed.
C16_Descending ==
    \A key \in Periods :
        LET top == top_lists_cache[key]
        IN  /\ Len(top) <= 20
            /\ \A i \in 1..(Len(top) - 1) :
                  by_players(top[i]) >= by_players(top[i + 1])

\* A tick put an entry into a list that is full, next to an entry of the
\* same player count.
C16_Witness ==
    /\ TickCompleted
    /\ \E key \in Periods :
        LET top == top_lists_cache[key]
        IN  /\ Len(top) = 20
            /\ \E i \in 1..(Len(top) - 1) :
                  /\ top[i + 1].time = last_check
                  /\ by_players(top[i]) = by_players(top[i + 1])

\* Twelve hours, in seconds.
TwelveHours == 12 * 60 * 60

\* C17: after every tick no top list has two entries of the same name
\* whose times are less than twelve hours apart, also when the listing
\* of a tick has the name more than once.
C17_NoDuplicateInPeriod ==
    \A key \in Periods :
        LET top == top_lists_cache[key]
        IN  \A i, j \in 1..Len(top) :
                (i # j /\ top[i].name = top[j].name) =>
                    \/ top[i].time - top[j].time >= TwelveHours
                    \/ top[j].time - top[i].time >= TwelveHours

\* The listing of the tick had a name twice; the list has it once with
\* the time of the tick, and once more from over twelve hours before.
C17_Witness ==
    /\ TickCompleted
    /\ Len(games_cache) = 2
    /\ games_cache[1].name = games_cache[2].name
    /\ by_players(games_cache[1]) # by_players(games_cache[2])
    /\ \E key \in Periods :
        LET top == top_lists_cache[key]
        IN  \E i, j \in 1..Len(top) :
                /\ top[i].name = games_cache[1].name
                /\ top[j].name = games_cache[1].name
                /\ top[i].time = last_check
                /\ top[j].time < last_check

Refreshed(name) ==
    \E i \in 1..Len(games_cache') :
        /\ games_cache'[i].name = name
        /\ by_players(games_cache'[i]) >= 10

\* A tick sets the record of every name listed with at least ten players
\* to its time; a record of time t that it does not set is there after
\* a tick at t + 12h - 1s and is not there after a tick at t + 12h + 1s.
RefreshAndExpire ==
    (nticks' = nticks + 1 /\ tick'.result = "completed") =>
        \A name \in DOMAIN popular_cache :
            /\ Refreshed(name) => popular_cache'[name] = <<now'>>
            /\ (~Refreshed(name) /\ popular_cache[name] # <<>>) =>
                  LET t == popular_cache[name][1]
                  IN  /\ now' = t + TwelveHours - 1 =>
                            popular_cache'[name] = <<t>>
                      /\ now' = t + TwelveHours + 1 =>
                            popular_cache'[name] = <<>>

Tracked(c) ==
    [g \in Guilds |->
        [i \in 1..Len(c[g]) |-> [name |-> c[g][i].name,
                                 state |-> c[g][i].state]]]

\* A tick whose request raises, or whose payload is not a list, leaves
\* the tracked entries, the caches, games_cache and last_check as they
\* were and sends nothing; what reaches repeat() is a return or an
\* exception that its handler answers by going on.
AbortedWithoutEffect ==
    (nticks' = nticks + 1 /\ tick'.result \in {"returned early", "raised"})
        => /\ Tracked(cfg') = Tracked(cfg)
           /\ \A g \in Guilds : sent'[g] = <<>>
           /\ top_lists_cache' = top_lists_cache
           /\ popular_cache' = popular_cache
           /\ games_cache' = games_cache
           /\ last_check' = last_check
           /\ ExceptHandler(IF tick'.result = "raised" THEN "Exception"
                            ELSE "none") = "continue"

\* C20: when the request fails or the payload is not a list, the tick
\* ends without effect: no tracked entry changes state, nothing is sent,
\* the top lists, the popular servers, games_cache and last_check stay
\* as they were, and the loop goes on to the next tick.
C20_AbortedTickNoEffect == [][AbortedWithoutEffect]_vars

\* The second tick got a payload that is not a list, after a first tick
\* that wrote the state of "a" and the caches.
C20_Witness ==
    /\ nticks = 2
    /\ tick.result = "returned early"
    /\ cfg[1][1].state.listed = "True"
    /\ last_check > 0
    /\ last_check < now
    /\ games_cache # <<>>
    /\ popular_cache["a"] = <<last_check>>

(***************************************************************************)
(* Two calls of check_server in a row with the same match.                 *)
(***************************************************************************)

\* The call now being made is handed the match the call before it was
\* handed: absent both times, or the same listing both times.
SameMatchAgain == Called /\ game' = game

Quiet(r) == r # <<>> /\ r[1].messages = <<>> /\ ~r[1].ping

\* C28: when two calls of check_server in a row give a tracked entity the
\* same match (absent both times, or present with the same password flag
\* both times), the second call emits no line, asks for no mention and
\* leaves the state as the first call left it, whatever the state was
\* before the first call.
SecondCallQuiet ==
    SameMatchAgain => Quiet(ret') /\ server_cfg' = server_cfg
C28_SameMatchIdempotent == [][SecondCallQuiet]_vars

\* A call that found the entity listed with a password, with the state the
\* same match had left behind, said nothing and changed nothing.
C28_Witness ==
    /\ Quiet(ret)
    /\ game # <<>>
    /\ Truthy(fbool(Get(game[1].has_password)))
    /\ old_state = [listed |-> "True", password |-> "True"]
    /\ server_cfg.state = old_state

(***************************************************************************)
(* Properties of filter_duplicate_top_games and of the rebuild             *)
(***************************************************************************)

\* This step hands the list to filter_duplicate_top_games after an
\* application that ended with it.
FiltersAgain ==
    /\ applied # <<>>
    /\ Len(applied') = Len(applied) + 1
    /\ applied'[Len(applied')].op = "filter_duplicate_top_games"

\* C25: filter_duplicate_top_games is idempotent: applied to a list it has
\* already processed it removes nothing and leaves the order unchanged,
\* for every list of (name, timestamp) entries.
FilterIdempotent == FiltersAgain => toplist' = toplist
C25_FilterIdempotent == [][FilterIdempotent]_vars

\* The filter ran twice on a list of three entries of one name; the first
\* run removed the entry in the middle, the second removed nothing.
C25_Witness ==
    /\ Len(applied) = 2
    /\ applied[1].op = "filter_duplicate_top_games"
    /\ applied[2].op = "filter_duplicate_top_games"
    /\ Len(applied[1].before) = 3
    /\ Len(applied[2].before) = 2
    /\ toplist = applied[2].before

\* Two entries of one name less than twelve hours apart.
Near(x, y) == x.name = y.name /\ Abs(x.time - y.time) < TwelveHours

\* The entries of q at the indices in I, in the order of q.
RECURSIVE PickFrom(_, _, _)
PickFrom(q, I, i) ==
    IF i > Len(q) THEN <<>>
    ELSE (IF i \in I THEN <<q[i]>> ELSE <<>>) \o PickFrom(q, I, i + 1)

\* kept is q without the entries removed as duplicates, I being the
\* indices kept: an entry is removed exactly when an entry kept before it
\* is near it.
KeepsAt(q, kept, I) ==
    /\ Cardinality(I) = Len(kept)
    /\ \A i \in 1..Len(q) :
          i \notin I <=> \E j \in I : j < i /\ Near(q[j], q[i])
    /\ kept = PickFrom(q, I, 1)

\* The list line 507 hands to the filter in the rebuild just made.
Sorted(r) ==
    sort_reverse(SelectSeq(r.before, LAMBDA g : g.time >= r.cutoff)
                 \o r.top_games)

IsNew(r, g) == \E i \in 1..Len(r.top_games) : r.top_games[i] = g

Rebuilt == applied = <<>> /\ applied' # <<>>
                          /\ applied'[1].op = "update_top_lists"

\* C26: in a rebuild, an entry is removed as a duplicate exactly when an
\* entry that is kept, of the same name and less than 12 hours away,
\* stands before it; that entry has at least its player count; removed
\* entries remove nothing; and on an equal player count the cached entry
\* is kept over the new one: the new one is removed, the cached one only
\* if a kept entry with more players is near it.
RebuildKeeps ==
    Rebuilt =>
      LET r == applied'[1]
          q == Sorted(r)
      IN  \E I \in SUBSET (1..Len(q)) :
             /\ KeepsAt(q, toplist', I)
             /\ \A i \in (1..Len(q)) \ I :
                   \E j \in I : /\ Near(q[j], q[i])
                                /\ by_players(q[j]) >= by_players(q[i])
             /\ \A i, j \in 1..Len(q) :
                   /\ ~IsNew(r, q[i])
                   /\ IsNew(r, q[j])
                   /\ Near(q[i], q[j])
                   /\ by_players(q[i]) = by_players(q[j])
                   => /\ j \notin I
                      /\ \/ i \in I
                         \/ \E k \in I :
                               /\ Near(q[k], q[i])
                               /\ by_players(q[k]) > by_players(q[i])
C26_DuplicatesOfKept == [][RebuildKeeps]_vars

\* A rebuild in which a new entry met a cached entry of its name with the
\* same player count, less than twelve hours old: the cached one stayed.
C26_Witness ==
    /\ applied # <<>>
    /\ applied[1].op = "update_top_lists"
    /\ \E i \in 1..Len(applied[1].before), j \in 1..Len(applied[1].top_games) :
          /\ Near(applied[1].before[i], applied[1].top_games[j])
          /\ by_players(applied[1].before[i])
                = by_players(applied[1].top_games[j])
          /\ applied[1].before[i].time >= applied[1].cutoff
          /\ \E k \in 1..Len(toplist) : toplist[k] = applied[1].before[i]
          /\ \A k \in 1..Len(toplist) : toplist[k] # applied[1].top_games[j]

(***************************************************************************)
(* Properties of the whole tick                                            *)
(***************************************************************************)

\* The tracked state the configuration file holds: what write_config last
\* wrote, or what was loaded when nothing was written yet.
LastPersisted ==
    IF config_file = <<>> THEN Tracked(LoadedConfig) ELSE config_file[1]

\* check_guild is about to classify the entries of guild g.
Classifying(g) == tick.pc = "guilds" /\ tick.k = g

\* C21: a tick classifies every tracked entity against the last
\* successfully persisted state, also when the tick before it failed at
\* write_config or before it; never against a state that a failed tick
\* computed.
C21_ClassifiesAgainstPersisted ==
    \A g \in Guilds :
        Classifying(g) => Tracked(cfg)[g] = LastPersisted[g]

\* How often the entries of guild g were classified in the tick.
RunsOf(g, n) == \A i \in 1..Len(cfg[g]) : cfg[g][i].runs = n

\* The caches are those of an earlier tick.
CachesNotOfThisTick == last_check < now

\* Where the tick stands tells what it has done: guilds below the one at
\* hand are classified and notified, those behind it are not; update_players
\* is called after all of them, write_config after it, and the caches are
\* touched only when the file holds the states of this tick.
StepOrder ==
    /\ tick.pc \in {"guilds", "send"}
         => /\ \A h \in Guilds : h < tick.k => RunsOf(h, 1)
            /\ \A h \in Guilds : h > tick.k => RunsOf(h, 0)
            /\ tick.k \in Guilds
                  => RunsOf(tick.k, IF tick.pc = "send" THEN 1 ELSE 0)
            /\ CachesNotOfThisTick
    /\ tick.pc = "fetch" => CachesNotOfThisTick /\ \A h \in Guilds : RunsOf(h, 0)
    /\ tick.pc = "write_config"
         => (\A h \in Guilds : RunsOf(h, 1)) /\ CachesNotOfThisTick
    /\ tick.pc = "caches"
         => /\ \A h \in Guilds : RunsOf(h, 1)
            /\ config_file = <<Tracked(cfg)>>
            /\ CachesNotOfThisTick

\* The file is written only by the step that follows update_players, the
\* caches only by the step that follows the write.
WritesInOrder ==
    /\ config_file' # config_file => tick.pc = "write_config"
    /\ <<last_check, games_cache, top_lists_cache, popular_cache>>'
          # <<last_check, games_cache, top_lists_cache, popular_cache>>
          => tick.pc = "caches"
    /\ <<top_lists_file, popular_file>>' # <<top_lists_file, popular_file>>
          => tick.pc = "caches"

\* log_channel.send raises in this step: it is over, the tick was not
\* cancelled, and the message is not among those sent.
SendFails ==
    /\ tick.pc = "send"
    /\ tick'.pc # "send"
    /\ tick'.result # "cancelled"
    /\ sent' = sent

\* The failed send ends the tick: the guilds behind are not classified,
\* no cache and no file is touched, and the states of the guilds
\* classified so far stay as check_server set them.
FailedSend ==
    SendFails =>
        /\ tick' = Idle("raised")
        /\ \A h \in Guilds : h > tick.k => RunsOf(h, 0)'
        /\ \A h \in Guilds :
              h <= tick.k => /\ RunsOf(h, 1)'
                             /\ \A i \in 1..Len(cfg'[h]) :
                                   cfg'[h][i].state.listed \in PyBool
        /\ UNCHANGED <<cacheVars, fileVars, games_cache>>
        /\ CachesNotOfThisTick

\* C30: within a tick the targets are classified and notified one after
\* another, then comes playtime accounting, then the tracked state is
\* persisted, and only then the snapshot, the last-check time and the two
\* caches are updated; a failed send leaves the targets after it
\* unclassified and the caches untouched, while the states of the targets
\* classified so far, the failing one included, stay advanced in memory.
OrderedStep == StepOrder' /\ WritesInOrder /\ FailedSend
C30_StepOrder == [][OrderedStep]_vars

\* The send to guild 1 failed: its entry carries the new state, the entry
\* of guild 2 was not classified, nothing was written.
C30_Witness ==
    /\ tick.pc = "idle"
    /\ tick.result = "raised"
    /\ RunsOf(1, 1)
    /\ cfg[1][1].state.listed = "True"
    /\ RunsOf(2, 0)
    /\ cfg[2][1].state = NoState
    /\ config_file = <<>>
    /\ CachesNotOfThisTick

\* The tick is at fetch, at a guild or its send, or in update_players.
BeforeCaches == tick.pc \in {"fetch", "guilds", "send"}

\* CancelledError is raised in check_games in this step.
CancelInTick == tick.pc # "idle" /\ tick'.result = "cancelled"

\* C24: a tick cancelled at a suspension point (fetch, send, playtime
\* accounting) has written neither top-lists.json nor popular.json and
\* leaves both caches as they were before it: the cancellation meets the
\* tick only before line 419, no step up to there touches the caches or
\* the documents, and neither does the cancellation.
CancelLeavesCaches ==
    /\ CancelInTick => BeforeCaches /\ Suspended /\ CachesNotOfThisTick
    /\ BeforeCaches \/ CancelInTick
          => UNCHANGED <<top_lists_cache, popular_cache, top_lists_file,
                         popular_file, last_check, games_cache>>
C24_CancelLeavesCaches == [][CancelLeavesCaches]_vars

\* The second tick was cancelled in update_players, after both guilds
\* were classified: caches and documents are those of the first tick.
C24_Witness ==
    /\ tick.result = "cancelled"
    /\ \A g \in Guilds : RunsOf(g, 1)
    /\ last_check = Delta
    /\ now = 2 * Delta
    /\ top_lists_cache["day"] # <<>>
    /\ top_lists_file = top_lists_cache
    /\ popular_file = popular_cache
    /\ popular_cache["a"] = <<Delta>>

\* What a command handler can read between two steps of a tick.
Generation == <<top_lists_cache, popular_cache, games_cache, last_check>>

\* What the tick at hand publishes when lines 419-423 are all carried out.
NextGeneration ==
    <<update_top_lists(top_lists_cache, tick.games, now),
      update_popular(popular_cache, tick.games, now),
      Stamped(tick.games, now), now>>

\* C23: a command handler that reads the caches while ticks run observes
\* a complete generation: the five top lists, the popularity cache, the
\* cached snapshot and the last-check time are all those of the previous
\* tick or all those of the next one, never a mix; so every step either
\* leaves all of them or replaces all of them.
CompleteGeneration ==
    Generation' = Generation \/ Generation' = NextGeneration
C23_CompleteGeneration == [][CompleteGeneration]_vars

(***************************************************************************)
(* Properties of the tracked lists under the commands                      *)
(***************************************************************************)

\* C22: whatever add-server, add-all, remove-server and remove-all
\* commands and ticks have taken place, the names a guild tracks are
\* pairwise distinct, also when the cached snapshot lists a name more
\* than once.
C22_TrackedNamesDistinct ==
    \A g \in Guilds :
        \A i, j \in 1..Len(cfg[g]) :
            i # j => cfg[g][i].name # cfg[g][j].name

(***************************************************************************)
(* Properties of the loop over a guild's entries                           *)
(***************************************************************************)

NamesOf(servers) == [i \in 1..Len(servers) |-> servers[i].name]

\* The loop of check_guild is at work on the list of guild tick.k.
InLoop == tick.pc = "entries"

\* C29: add and remove commands run while a tick is in progress, but not
\* in the middle of the loop over a guild's list: while the loop is at
\* work the list keeps its entries, each step of the loop classifies the
\* entry the iterator stands at and no other, and when the loop is left
\* every entry of the list has been classified exactly once.
LoopUndisturbed ==
    InLoop =>
        /\ \A g \in Guilds : NamesOf(cfg'[g]) = NamesOf(cfg[g])
        /\ \A i \in 1..Len(cfg[tick.k]) :
              cfg'[tick.k][i].runs =
                 cfg[tick.k][i].runs + (IF iter' = i /\ iter = i - 1
                                        THEN 1 ELSE 0)
        /\ ~InLoop' => \A i \in 1..Len(cfg'[tick.k]) :
                           cfg'[tick.k][i].runs = 1
C29_LoopUndisturbed == [][LoopUndisturbed]_vars

\* A tick is in progress: the send for guild 1 is awaited, its loop is
\* over, and a command given during the send has changed the list, whose
\* second entry is new and not classified.
C29_Witness ==
    /\ tick.pc = "send"
    /\ tick.k = 1
    /\ Len(cfg[1]) = 2
    /\ cfg[1][1].runs = 1
    /\ cfg[1][2].runs = 0

(***************************************************************************)
(* Properties of the top lists over the history of the ticks               *)
(***************************************************************************)

\* Where the window of a key starts when the last rebuild is the one at
\* last_check: a day, a week, 30 days or 365 days before it, or at 0.
WindowStart(key) ==
    CASE key = "day"   -> last_check - 2 * TwelveHours
      [] key = "week"  -> last_check - 14 * TwelveHours
      [] key = "month" -> last_check - 60 * TwelveHours
      [] key = "year"  -> last_check - 730 * TwelveHours
      [] key = "all"   -> 0

\* The player counts seen at the ticks at or after the start of the
\* window of a key.
SeenSince(key) ==
    {e.players : e \in {o \in seen : o.time >= WindowStart(key)}}

IsMax(n, S) == n \in S /\ \A m \in S : m <= n

\* No entry of the list of a key is older than the cutoff of the key.
AllFresh(key) ==
    \A i \in 1..Len(top_lists_cache[key]) :
        top_lists_cache[key][i].time >= WindowStart(key)

\* C27 (as stated): after a tick, every entry of every top list is at or
\* after the cutoff of its window, and the player count of the first
\* entry is the greatest player count any listing entry had at a tick at
\* or after that cutoff.
C27_FirstIsMaxSeen ==
    tick.result = "completed" =>
        \A key \in Periods :
            /\ AllFresh(key)
            /\ SeenSince(key) # {}
                  => /\ top_lists_cache[key] # <<>>
                     /\ IsMax(by_players(top_lists_cache[key][1]),
                              SeenSince(key))

\* C27 (amended): after a tick that rebuilds the top lists, every entry
\* is at or after the cutoff of its window, the player count of the
\* first entry is one that was seen at a tick at or after the cutoff, and
\* it is not below any player count of the listing of the tick itself.
C27_FirstWithinSeen ==
    tick.result = "completed" =>
        \A key \in Periods :
            /\ AllFresh(key)
            /\ top_lists_cache[key] # <<>>
                  => by_players(top_lists_cache[key][1]) \in SeenSince(key)
            /\ \A i \in 1..Len(games_cache) :
                  /\ top_lists_cache[key] # <<>>
                  /\ by_players(games_cache[i])
                        <= by_players(top_lists_cache[key][1])

\* "a" was seen with 10 players a minute after it was seen with 31 and
\* was removed as a duplicate; a day later the entry with 31 has left the
\* window of the day, and the list does not hold the 10.
C27_Witness ==
    /\ tick.result = "completed"
    /\ 10 \in SeenSince("day")
    /\ top_lists_cache["day"] = <<>>
    /\ top_lists_cache["week"] # <<>>

====
